---- MODULE Spec2Model ----
(***************************************************************************)
(* The purchase store of my-purchases/web: the reconciliation engine       *)
(* (addPurchases), the deletion operations, currency conversion, and the   *)
(* callers that start batches (file import and provider sync).             *)
(*                                                                         *)
(* Every await of the source is a scheduling point: an action is the       *)
(* storage operation that was awaited together with the synchronous code   *)
(* that runs up to the next await.                                         *)
(*                                                                         *)
(* Representation: an absent (undefined) string field is None; an absent   *)
(* value of another type is the empty sequence <<>> and a present one a    *)
(* one-element sequence.  A table is a function from the stored primary    *)
(* keys to the records.  Prices are counted in minor units (integers).     *)
(***************************************************************************)
EXTENDS Integers, Sequences, FiniteSets, TLC

VARIABLES
    purchases,      \* db.purchases: stored id -> Purchase
    tagAssignments, \* db.tagAssignments: set of TagAssignment
    selected,       \* selectedPurchaseIds, in insertion order
    task,           \* the addPurchases calls in flight, one slot per caller
    del,            \* the deletion operation in flight
    conv,           \* the convertPurchases call in flight
    ui,             \* the React state of ProviderPanel
    imp,            \* the handleFileImport call in flight
    sync,           \* the handleSync / syncProvider call in flight
    syncState,      \* db.syncState: provider id -> SyncState
    ingest          \* the import file being parsed by a provider

panel == <<ui, imp, sync, syncState>>

vars == <<purchases, tagAssignments, selected, task, del, conv, panel, ingest>>

\* ------------------------------------------------------------------ bounds

MaxBatch == 2

\* ------------------------------------------------------------- the records

None == "undefined"

PurchaseIdSeq == <<"p1", "p2">>
PurchaseIds == {PurchaseIdSeq[n] : n \in DOMAIN PurchaseIdSeq}
ProviderIds == {"allegro", "amazon"}
ItemIdSeq == <<"i1", "i2">>
ItemIds == {ItemIdSeq[n] : n \in DOMAIN ItemIdSeq}

IdentityFields == {"title", "price", "currency", "purchaseDate"}
OptionalFields == {"imageUrl", "categoryName", "originalUrl", "rawData"}

\* Purchase of database.ts, as a mapper emits it: no converted price.
\* convertedFrom is history: the price and currency convertedPrice was computed
\* from.
Purchase(id, pid, item, core, opt) ==
    [id |-> id, providerId |-> pid, providerItemId |-> item,
     title |-> core.title, price |-> core.price, currency |-> core.currency,
     purchaseDate |-> core.purchaseDate,
     imageUrl |-> opt.imageUrl, categoryName |-> opt.categoryName,
     originalUrl |-> opt.originalUrl, rawData |-> opt.rawData,
     convertedPrice |-> <<>>, convertedCurrency |-> None,
     convertedFrom |-> <<>>]

CoreA == [title |-> "Lamp", price |-> 1999, currency |-> "PLN",
          purchaseDate |-> "2024-01-15T12:00:00.000Z"]
CoreTitle == [CoreA EXCEPT !.title = "Lamp v2"]
CorePrice == [CoreA EXCEPT !.price = 2500]
CoreCurrency == [CoreA EXCEPT !.currency = "EUR"]
CoreDate == [CoreA EXCEPT !.purchaseDate = "2024-02-20T12:00:00.000Z"]
Cores == {CoreA, CoreTitle, CorePrice, CoreCurrency, CoreDate}

OptNone == [imageUrl |-> None, categoryName |-> None, originalUrl |-> None,
            rawData |-> None]
OptOne == [imageUrl |-> "img1", categoryName |-> "cat1", originalUrl |-> "url1",
           rawData |-> "raw1"]
OptImage == [OptNone EXCEPT !.imageUrl = "img2"]

\* ------------------------------------------------------- pure helper code

\* `${p.providerId}|${p.providerItemId}`
DedupKey(p) == p.providerId \o "|" \o p.providerItemId

\* JavaScript truthiness of an optional string or object field.
Falsy(v) == v = None \/ v = ""

\* The id the Allegro CSV mapper gives a record (allegro-csv-<offer>-...).
CsvPurchaseId == "p1-csv"

\* The primary keys in the order of the index.
PrimaryKeyOrder == <<"p1", CsvPurchaseId, "p2">>

Rank(id) == CHOOSE n \in DOMAIN PrimaryKeyOrder : PrimaryKeyOrder[n] = id

\* [...new Set(purchases.map((p) => p.providerId))]: first occurrences, in order.
RECURSIVE DistinctProviders(_, _)
DistinctProviders(batch, seen) ==
    IF batch = <<>> THEN <<>>
    ELSE IF Head(batch).providerId \in seen
         THEN DistinctProviders(Tail(batch), seen)
         ELSE <<Head(batch).providerId>>
              \o DistinctProviders(Tail(batch), seen \cup {Head(batch).providerId})

\* db.purchases.where('providerId').equals(pid).toArray() followed by
\* existingMap.set(key, e.id) for each: rows come in primary-key order, so of
\* two rows with one key the one with the greater id stays in the map.
LoadIndex(map, store, pid) ==
    LET rows == {id \in DOMAIN store : store[id].providerId = pid}
        keys == {DedupKey(store[id]) : id \in rows}
        last(k) == CHOOSE id \in rows :
                     /\ DedupKey(store[id]) = k
                     /\ \A o \in rows : DedupKey(store[o]) = k => Rank(o) <= Rank(id)
    IN [k \in (DOMAIN map) \cup keys |-> IF k \in keys THEN last(k) ELSE map[k]]

\* A set that is forgotten: the key of an inserted candidate is not registered.
MapSetForgotten(map, k, id) == map

\* existingMap.set(key, purchase.id)
MapSet(map, k, id) == [x \in (DOMAIN map) \cup {k} |-> IF x = k THEN id ELSE map[x]]

\* The comparison stops at the title.
SameIdentityTitleOnly(existing, purchase) == existing.title = purchase.title

\* The two objects are compared by reference: never the same.
SameIdentityByReference(existing, purchase) == FALSE

\* existing.title === purchase.title && ... && existing.purchaseDate === ...
SameIdentity(existing, purchase) ==
    /\ existing.title = purchase.title
    /\ existing.price = purchase.price
    /\ existing.currency = purchase.currency
    /\ existing.purchaseDate = purchase.purchaseDate

\* Every optional field the candidate supplies, populated on the record or not.
FieldsToEnrichOverwriting(existing, purchase) ==
    [f \in {g \in OptionalFields : ~Falsy(purchase[g])} |-> purchase[f]]

\* fieldsToEnrich: the optional fields the stored record lacks and the
\* candidate supplies.
FieldsToEnrich(existing, purchase) ==
    [f \in {g \in OptionalFields : Falsy(existing[g]) /\ ~Falsy(purchase[g])}
        |-> purchase[f]]

\* The update branch with categoryName left out.
UpdateChangesWithoutCategory(purchase) ==
    [f \in (IdentityFields \cup OptionalFields) \ {"categoryName"} |-> purchase[f]]

\* The object literal of the update branch.
UpdateChanges(purchase) ==
    [f \in IdentityFields \cup OptionalFields |-> purchase[f]]

\* Table.update(key, changes): a no-op when the key is not stored; a change to
\* undefined removes the property.
DbUpdate(store, id, changes) ==
    IF id \in DOMAIN store
    THEN [store EXCEPT ![id] =
            [f \in DOMAIN @ |-> IF f \in DOMAIN changes THEN changes[f] ELSE @[f]]]
    ELSE store

\* Table.add(record), for a key that is not stored.
DbAdd(store, rec) ==
    [id \in (DOMAIN store) \cup {rec.id} |-> IF id = rec.id THEN rec ELSE store[id]]

\* Table.delete / Collection.delete: the rows left.
DbRemove(store, ids) == [id \in (DOMAIN store) \ ids |-> store[id]]

\* ------------------------------------------------------------ addPurchases

ProgressEvery == 50

TaskIds == {"direct", "import", "sync"}

\* The locals of one addPurchases call.  startStore, trail and repeat are
\* history: the store when the call began, the stored record each processed
\* candidate left behind, and whether the call repeats the previous batch.
IdleTask ==
    [pc |-> "idle", batch |-> <<>>, pids |-> <<>>, i |-> 1, existingMap |-> <<>>,
     existing |-> <<>>, observed |-> FALSE,
     added |-> 0, skipped |-> 0, updated |-> 0, enriched |-> 0,
     progress |-> <<>>, result |-> <<>>, error |-> "",
     startStore |-> <<>>, trail |-> <<>>, repeat |-> FALSE]

Candidate(tk) == tk.batch[tk.i]

\* const existingId = existingMap.get(key)
ExistingId(tk) == tk.existingMap[DedupKey(Candidate(tk))]

\* if (existingId): the key is in the map (stored ids are non-empty strings)
HasExistingId(tk) == DedupKey(Candidate(tk)) \in DOMAIN tk.existingMap

Snapshot(tk) ==
    [total |-> Len(tk.batch), processed |-> tk.i, added |-> tk.added,
     skipped |-> tk.skipped, updated |-> tk.updated, enriched |-> tk.enriched]

\* return { added, skipped, updated, enriched, total }
Result(tk) ==
    [added |-> tk.added, skipped |-> tk.skipped, updated |-> tk.updated,
     enriched |-> tk.enriched, total |-> Len(tk.batch)]

\* A report every 50 items only, the last item not reported for its own sake.
ReportDueEveryFiftyOnly(tk) ==
    tk.observed /\ (tk.i - 1) % ProgressEvery = 0

\* if (onProgress && (i % 50 === 0 || i === purchases.length - 1)), i from 0
ReportDue(tk) ==
    tk.observed /\ ((tk.i - 1) % ProgressEvery = 0 \/ tk.i = Len(tk.batch))

\* The head of the for loop: the loop ends and the call returns, or the next
\* candidate is looked up in the map and its first storage operation is issued.
EnterIteration(tk) ==
    IF tk.i > Len(tk.batch)
    THEN [tk EXCEPT !.pc = "returned", !.result = <<Result(tk)>>]
    ELSE IF HasExistingId(tk) THEN [tk EXCEPT !.pc = "get"]
    ELSE [tk EXCEPT !.pc = "add"]

\* The tail of one iteration, the counters already raised: the progress
\* report, then the next iteration.  store is the table after the iteration
\* and id the record the iteration was about.
FinishIteration(tk, store, id) ==
    EnterIteration(
        [tk EXCEPT !.progress = IF ReportDue(tk) THEN <<Snapshot(tk)>> ELSE @,
                   !.trail = Append(@, IF id \in DOMAIN store
                                       THEN <<store[id]>> ELSE <<>>),
                   !.existing = <<>>,
                   !.i = @ + 1])

\* The exception is caught inside the engine and the partial counts returned.
RejectSwallowed(tk, message) ==
    [tk EXCEPT !.pc = "returned", !.result = <<Result(tk)>>]

\* A rejected call: the exception leaves the async function.
Reject(tk, message) == [tk EXCEPT !.pc = "rejected", !.error = message]

\* The synchronous start of addPurchases, up to its first await.
BeginAdd(batch, observed, store, repeat) ==
    LET tk == [IdleTask EXCEPT !.batch = batch, !.observed = observed,
                               !.pids = DistinctProviders(batch, {}),
                               !.startStore = store, !.repeat = repeat]
    IN IF tk.pids = <<>> THEN EnterIteration(tk) ELSE [tk EXCEPT !.pc = "index"]

\* await db.purchases.where('providerId').equals(pid).toArray() and the
\* existingMap.set loop, for the next provider id of the batch.
IndexedTask(tk, store) ==
    LET tk2 == [tk EXCEPT !.existingMap = LoadIndex(@, store, Head(tk.pids)),
                          !.pids = Tail(@)]
    IN IF tk2.pids = <<>> THEN EnterIteration(tk2) ELSE tk2

\* The comparison after get, with skipped++ left out.
GotTaskSkipUncounted(tk, store) ==
    LET id == ExistingId(tk)
        ex == IF id \in DOMAIN store THEN <<store[id]>> ELSE <<>>
    IN IF ex # <<>> /\ SameIdentity(ex[1], Candidate(tk))
       THEN IF DOMAIN FieldsToEnrich(ex[1], Candidate(tk)) # {}
            THEN [tk EXCEPT !.pc = "enrich", !.existing = ex]
            ELSE FinishIteration(tk, store, id)
       ELSE [tk EXCEPT !.pc = "update", !.existing = ex]

\* await db.purchases.get(existingId) and the comparison that follows it.
GotTask(tk, store) ==
    LET id == ExistingId(tk)
        ex == IF id \in DOMAIN store THEN <<store[id]>> ELSE <<>>
    IN IF ex # <<>> /\ SameIdentity(ex[1], Candidate(tk))
       THEN IF DOMAIN FieldsToEnrich(ex[1], Candidate(tk)) # {}
            THEN [tk EXCEPT !.pc = "enrich", !.existing = ex]
            ELSE FinishIteration([tk EXCEPT !.skipped = @ + 1], store, id)
       ELSE [tk EXCEPT !.pc = "update", !.existing = ex]

IndexStep(t) ==
    /\ task[t].pc = "index"
    /\ task' = [task EXCEPT ![t] = IndexedTask(@, purchases)]
    /\ UNCHANGED purchases

GetStep(t) ==
    /\ task[t].pc = "get"
    /\ task' = [task EXCEPT ![t] = GotTask(@, purchases)]
    /\ UNCHANGED purchases

\* await db.purchases.update(existingId, fieldsToEnrich); enriched++
EnrichStep(t) ==
    /\ task[t].pc = "enrich"
    /\ LET tk == task[t]
           id == ExistingId(tk)
           store == DbUpdate(purchases, id,
                             FieldsToEnrich(tk.existing[1], Candidate(tk)))
       IN /\ purchases' = store
          /\ task' = [task EXCEPT ![t] =
                        FinishIteration([tk EXCEPT !.enriched = @ + 1], store, id)]

\* await db.purchases.update(existingId, {title, ..., rawData}); updated++
UpdateStep(t) ==
    /\ task[t].pc = "update"
    /\ LET tk == task[t]
           id == ExistingId(tk)
           store == DbUpdate(purchases, id, UpdateChanges(Candidate(tk)))
       IN /\ purchases' = store
          /\ task' = [task EXCEPT ![t] =
                        FinishIteration([tk EXCEPT !.updated = @ + 1], store, id)]

\* await db.purchases.add(purchase); existingMap.set(key, purchase.id); added++
\* Table.add rejects with a ConstraintError when the primary key is stored.
AddStep(t) ==
    /\ task[t].pc = "add"
    /\ LET tk == task[t]
           p == Candidate(tk)
       IN IF p.id \in DOMAIN purchases
          THEN /\ task' = [task EXCEPT ![t] = Reject(tk, "ConstraintError")]
               /\ UNCHANGED purchases
          ELSE /\ purchases' = DbAdd(purchases, p)
               /\ task' = [task EXCEPT ![t] =
                    FinishIteration(
                        [tk EXCEPT !.added = @ + 1,
                                   !.existingMap = MapSet(@, DedupKey(p), p.id)],
                        DbAdd(purchases, p), p.id)]

Awaiting(tk) == tk.pc \in {"index", "get", "enrich", "update", "add"}

\* The storage engine fails the awaited operation (storage unavailable).
StorageFail(t) ==
    /\ Awaiting(task[t])
    /\ task' = [task EXCEPT ![t] = Reject(@, "StorageError")]
    /\ UNCHANGED purchases

AddPurchasesStep(t) ==
    \/ IndexStep(t)
    \/ GetStep(t)
    \/ EnrichStep(t)
    \/ UpdateStep(t)
    \/ AddStep(t)
    \/ StorageFail(t)

\* ------------------------------------------------ sequential reconciliation

\* Candidates that differ in primary key and dedup key.
KeyPool == {Purchase(id, pid, item, core, OptNone) :
                id \in PurchaseIds, pid \in ProviderIds, item \in ItemIds,
                core \in {CoreA, CoreTitle}}

BatchesOf(pool) == UNION {[1..n -> pool] : n \in 0..MaxBatch}

\* usePurchaseStore.getState().addPurchases(batch, onProgress), with no other
\* call in flight.
CallAddPurchases(pool) ==
    /\ task["direct"].pc = "idle"
    /\ \E batch \in BatchesOf(pool) :
          task' = [task EXCEPT !["direct"] =
                     BeginAdd(batch, TRUE, purchases, FALSE)]
    /\ UNCHANGED <<purchases, tagAssignments, selected, del, conv, panel, ingest>>

\* The caller's continuation has consumed the settled promise.
TakeResult ==
    /\ task["direct"].pc \in {"returned", "rejected"}
    /\ task' = [task EXCEPT !["direct"] = IdleTask]
    /\ UNCHANGED <<purchases, tagAssignments, selected, del, conv, panel, ingest>>

\* The same batch handed to addPurchases again, right after it returned.
CallAgain ==
    /\ task["direct"].pc = "returned"
    /\ task' = [task EXCEPT !["direct"] =
                  BeginAdd(@.batch, @.observed, purchases, TRUE)]
    /\ UNCHANGED <<purchases, tagAssignments, selected, del, conv, panel, ingest>>

DirectStep ==
    /\ AddPurchasesStep("direct")
    /\ UNCHANGED <<tagAssignments, selected, del, conv, panel, ingest>>

Next ==
    \/ CallAddPurchases(KeyPool)
    \/ TakeResult
    \/ DirectStep

\* ------------------------------------------- reconciliation, field by field

\* Candidates for one dedup key that differ in every compared field and in the
\* optional fields they supply.
FieldPool == {Purchase("p1", "allegro", "i1", core, opt) :
                core \in Cores, opt \in {OptNone, OptOne, OptImage}}

\* The steps of addPurchases with the storage engine available.
StoredStep ==
    /\ \/ IndexStep("direct")
       \/ GetStep("direct")
       \/ EnrichStep("direct")
       \/ UpdateStep("direct")
       \/ AddStep("direct")
    /\ UNCHANGED <<tagAssignments, selected, del, conv, panel, ingest>>

NextFields ==
    \/ CallAddPurchases(FieldPool)
    \/ CallAgain
    \/ TakeResult
    \/ StoredStep

\* ------------------------------------------------------ tags and selection

TagGroupIds == {"g1"}
TagValues == {<<>>, <<"v1">>}
TagRecordIds == {"a1", "a2"}

\* assignTag of the tag store: the assignment of (targetId, tagGroupId) is
\* looked up; a stored one is deleted when no value is selected and updated
\* otherwise; a new one is added under a fresh id when a value is selected.
AssignedTags(tags, targetId, tagGroupId, values) ==
    LET found == {a \in tags : a.targetId = targetId /\ a.tagGroupId = tagGroupId}
    IN IF found # {}
       THEN LET ex == CHOOSE a \in found : TRUE
            IN IF values = <<>> THEN tags \ {ex}
               ELSE (tags \ {ex}) \cup {[ex EXCEPT !.selectedValues = values]}
       ELSE IF values # <<>>
            THEN LET fresh == CHOOSE x \in TagRecordIds :
                                 \A a \in tags : a.id # x
                 IN tags \cup {[id |-> fresh, targetId |-> targetId,
                                tagGroupId |-> tagGroupId,
                                selectedValues |-> values]}
            ELSE tags

\* toggleSelection(purchaseId): the id leaves the set, or joins it at the end.
Toggled(sel, id) ==
    IF \E n \in DOMAIN sel : sel[n] = id
    THEN SelectSeq(sel, LAMBDA x : x # id)
    ELSE Append(sel, id)

\* ----------------------------------------------------------------- deletion

\* The deletion in flight: its remaining ids (deletePurchase,
\* deleteSelectedPurchases) or its provider (clearProviderPurchases).  removed
\* is history: the purchases the operation has deleted.
DelIdle == [pc |-> "idle", op |-> "", ids |-> <<>>, provider |-> "", removed |-> {}]

\* The tag assignments left by
\* db.tagAssignments.where('targetId').equals(id).delete()
TagsWithoutTarget(tags, id) == {a \in tags : a.targetId # id}

\* The rows db.purchases.where('providerId').equals(providerId) selects.
IdsOfProvider(store, pid) == {id \in DOMAIN store : store[id].providerId = pid}

\* The tag assignments left when clearProviderPurchases returns.
TagsAfterClearProvider(tags, gone) == tags

NoOperation ==
    /\ \A t \in TaskIds : task[t].pc = "idle"
    /\ del.pc \in {"idle", "done"}
    /\ conv.pc \in {"idle", "done"}

\* deletePurchase(id), up to its first await.
DeletePurchaseCall(id) ==
    /\ NoOperation
    /\ del' = [DelIdle EXCEPT !.pc = "purchase", !.op = "deletePurchase",
                              !.ids = <<id>>]
    /\ UNCHANGED <<purchases, tagAssignments, selected, task, conv, panel, ingest>>

\* deleteSelectedPurchases(), up to its first await; with nothing selected it
\* returns 0 at once.
DeleteSelectedCall ==
    /\ NoOperation
    /\ del' = IF selected = <<>>
              THEN [DelIdle EXCEPT !.pc = "done", !.op = "deleteSelectedPurchases"]
              ELSE [DelIdle EXCEPT !.pc = "purchase",
                                   !.op = "deleteSelectedPurchases",
                                   !.ids = selected]
    /\ UNCHANGED <<purchases, tagAssignments, selected, task, conv, panel, ingest>>

\* await db.purchases.delete(id)
DeleteRowStep ==
    /\ del.pc = "purchase"
    /\ purchases' = DbRemove(purchases, {Head(del.ids)})
    /\ del' = [del EXCEPT !.pc = "tags",
                          !.removed = @ \cup ({Head(del.ids)} \cap DOMAIN purchases)]
    /\ UNCHANGED <<tagAssignments, selected, task, conv, panel, ingest>>

\* await db.tagAssignments.where('targetId').equals(id).delete(), then the next
\* selected id, or the return (deleteSelectedPurchases clears the selection).
DeleteTagsStep ==
    /\ del.pc = "tags"
    /\ tagAssignments' = TagsWithoutTarget(tagAssignments, Head(del.ids))
    /\ IF Tail(del.ids) # <<>>
       THEN /\ del' = [del EXCEPT !.pc = "purchase", !.ids = Tail(@)]
            /\ UNCHANGED selected
       ELSE /\ del' = [del EXCEPT !.pc = "done", !.ids = <<>>]
            /\ selected' = IF del.op = "deleteSelectedPurchases" THEN <<>> ELSE selected
    /\ UNCHANGED <<purchases, task, conv, panel, ingest>>

\* clearProviderPurchases(providerId), up to its first await.
ClearProviderCall(pid) ==
    /\ NoOperation
    /\ del' = [DelIdle EXCEPT !.pc = "count", !.op = "clearProviderPurchases",
                              !.provider = pid]
    /\ UNCHANGED <<purchases, tagAssignments, selected, task, conv, panel, ingest>>

\* const count = await db.purchases.where('providerId').equals(pid).count()
ClearProviderCountStep ==
    /\ del.pc = "count"
    /\ del' = [del EXCEPT !.pc = "rows"]
    /\ UNCHANGED <<purchases, tagAssignments, selected, task, conv, panel, ingest>>

\* await db.purchases.where('providerId').equals(pid).delete(); the function
\* returns.
ClearProviderRowsStep ==
    /\ del.pc = "rows"
    /\ LET gone == IdsOfProvider(purchases, del.provider)
       IN /\ purchases' = DbRemove(purchases, gone)
          /\ tagAssignments' = TagsAfterClearProvider(tagAssignments, gone)
          /\ del' = [del EXCEPT !.pc = "done", !.removed = gone]
    /\ UNCHANGED <<selected, task, conv, panel, ingest>>

\* clearAllPurchases(), up to its first await.
ClearAllCall ==
    /\ NoOperation
    /\ del' = [DelIdle EXCEPT !.pc = "allRows", !.op = "clearAllPurchases"]
    /\ UNCHANGED <<purchases, tagAssignments, selected, task, conv, panel, ingest>>

\* await db.purchases.clear()
ClearAllRowsStep ==
    /\ del.pc = "allRows"
    /\ purchases' = <<>>
    /\ del' = [del EXCEPT !.pc = "allTags", !.removed = DOMAIN purchases]
    /\ UNCHANGED <<tagAssignments, selected, task, conv, panel, ingest>>

\* await db.tagAssignments.clear()
ClearAllTagsStep ==
    /\ del.pc = "allTags"
    /\ tagAssignments' = {}
    /\ del' = [del EXCEPT !.pc = "allGroups"]
    /\ UNCHANGED <<purchases, selected, task, conv, panel, ingest>>

\* await db.purchaseGroups.clear() (the groups table is not part of this
\* model); the function returns.
ClearAllGroupsStep ==
    /\ del.pc = "allGroups"
    /\ del' = [del EXCEPT !.pc = "done"]
    /\ UNCHANGED <<purchases, tagAssignments, selected, task, conv, panel, ingest>>

\* assignTag(targetId, 'purchase', tagGroupId, selectedValues), taken whole,
\* while no other operation runs.
AssignTag(targetId, tagGroupId, values) ==
    /\ NoOperation
    /\ tagAssignments' = AssignedTags(tagAssignments, targetId, tagGroupId, values)
    /\ UNCHANGED <<purchases, selected, task, del, conv, panel, ingest>>

ToggleSelection(id) ==
    /\ NoOperation
    /\ selected' = Toggled(selected, id)
    /\ UNCHANGED <<purchases, tagAssignments, task, del, conv, panel, ingest>>

\* One-candidate-per-id purchases to delete.
DeletePool == {Purchase(id, pid, "i1", CoreA, OptNone) :
                  id \in PurchaseIds, pid \in ProviderIds}

CallAddWhenQuiet(pool) == NoOperation /\ CallAddPurchases(pool)

NextDelete ==
    \/ CallAddWhenQuiet(DeletePool)
    \/ TakeResult
    \/ StoredStep
    \/ \E id \in PurchaseIds, g \in TagGroupIds, v \in TagValues : AssignTag(id, g, v)
    \/ \E id \in PurchaseIds : ToggleSelection(id)
    \/ \E id \in PurchaseIds : DeletePurchaseCall(id)
    \/ DeleteSelectedCall
    \/ \E pid \in ProviderIds : ClearProviderCall(pid)
    \/ ClearAllCall
    \/ DeleteRowStep
    \/ DeleteTagsStep
    \/ ClearProviderCountStep
    \/ ClearProviderRowsStep
    \/ ClearAllRowsStep
    \/ ClearAllTagsStep
    \/ ClearAllGroupsStep

\* --------------------------------------------------------------- conversion

Currencies == {"PLN", "EUR"}

\* extractDate: isoDate.slice(0, 10), tabulated for the dates of the model.
ExtractDate(isoDate) ==
    CASE isoDate = "2024-01-15T12:00:00.000Z" -> "2024-01-15"
      [] isoDate = "2024-02-20T12:00:00.000Z" -> "2024-02-20"

\* The rate the exchange-rate service has for (from, to, date), as a fraction
\* <<numerator, denominator>>.
ApiRate(from, to, date) ==
    IF from = "PLN"
    THEN (IF date = "2024-01-15" THEN <<1, 4>> ELSE <<1, 5>>)
    ELSE (IF date = "2024-01-15" THEN <<4, 1>> ELSE <<5, 1>>)

\* `${p.currency}_${preferredCurrency}_${extractDate(p.purchaseDate)}`
RateKey(p, preferred) ==
    p.currency \o "_" \o preferred \o "_" \o ExtractDate(p.purchaseDate)

\* Math.round(p.price * rate * 100) / 100, in minor units.
ConvertedPrice(price, rate) == (2 * price * rate[1] + rate[2]) \div (2 * rate[2])

\* allPurchases.filter(currency !== preferred && convertedCurrency !== preferred)
ToConvert(all, preferred) ==
    SelectSeq(PurchaseIdSeq,
              LAMBDA id : /\ id \in DOMAIN all
                          /\ all[id].currency # preferred
                          /\ all[id].convertedCurrency # preferred)

\* allPurchases.filter(currency === preferred && convertedCurrency !== preferred)
SameCurrency(all, preferred) ==
    SelectSeq(PurchaseIdSeq,
              LAMBDA id : /\ id \in DOMAIN all
                          /\ all[id].currency = preferred
                          /\ all[id].convertedCurrency # preferred)

\* The keys batchFetchRates is asked for.
RequestedKeys(all, preferred) ==
    {RateKey(all[ToConvert(all, preferred)[n]], preferred) :
        n \in DOMAIN ToConvert(all, preferred)}

\* The update written for a record converted at a rate.
RatedChange(p, preferred, rate) ==
    [convertedPrice |-> <<ConvertedPrice(p.price, rate)>>,
     convertedCurrency |-> preferred,
     convertedFrom |-> <<p.price, p.currency>>]

\* The update written for a record already in the preferred currency.
SameCurrencyChange(p, preferred) ==
    [convertedPrice |-> <<p.price>>, convertedCurrency |-> preferred,
     convertedFrom |-> <<p.price, p.currency>>]

RECURSIVE RatedUpdates(_, _, _, _)
RatedUpdates(ids, all, preferred, got) ==
    IF ids = <<>> THEN <<>>
    ELSE LET p == all[Head(ids)]
             rest == RatedUpdates(Tail(ids), all, preferred, got)
         IN IF RateKey(p, preferred) \in got
            THEN <<[id |-> p.id,
                    changes |-> RatedChange(p, preferred,
                        ApiRate(p.currency, preferred, ExtractDate(p.purchaseDate)))]>>
                 \o rest
            ELSE rest

RECURSIVE SameCurrencyUpdates(_, _, _)
SameCurrencyUpdates(ids, all, preferred) ==
    IF ids = <<>> THEN <<>>
    ELSE <<[id |-> Head(ids),
            changes |-> SameCurrencyChange(all[Head(ids)], preferred)]>>
         \o SameCurrencyUpdates(Tail(ids), all, preferred)

\* The convertPurchases or rebuildConvertedPrices call in flight: the snapshot
\* it read, the updates it has still to write, and its count of converted
\* records.
ConvIdle == [pc |-> "idle", op |-> "convertPurchases", preferred |-> "",
             all |-> <<>>, queue |-> <<>>, converted |-> 0]

\* convertPurchases(preferredCurrency), up to its first await.
ConvertCall(preferred) ==
    /\ NoOperation
    /\ conv' = [ConvIdle EXCEPT !.pc = "snapshot", !.preferred = preferred]
    /\ UNCHANGED <<purchases, tagAssignments, selected, task, del, panel, ingest>>

\* The queue is empty: the function returns.
ConvContinue(c) ==
    IF c.queue = <<>> THEN [c EXCEPT !.pc = "done", !.all = <<>>] ELSE c

\* const allPurchases = await db.purchases.toArray(), and the filters: with
\* nothing to convert only the same-currency records are written.
ConvSnapshotStep ==
    /\ conv.pc = "snapshot"
    /\ conv.op = "convertPurchases"
    /\ conv' =
         IF ToConvert(purchases, conv.preferred) = <<>>
         THEN ConvContinue(
                [conv EXCEPT !.pc = "apply", !.all = purchases,
                    !.queue = SameCurrencyUpdates(
                        SameCurrency(purchases, conv.preferred), purchases,
                        conv.preferred)])
         ELSE [conv EXCEPT !.pc = "rates", !.all = purchases]
    /\ UNCHANGED <<purchases, tagAssignments, selected, task, del, panel, ingest>>

\* const rates = await batchFetchRates(requests): a rate for each requested key
\* whose fetch succeeded.  The updates of the rated records are queued, then
\* those of the same-currency records.
ConvRatesStep ==
    /\ conv.pc = "rates"
    /\ conv.op = "convertPurchases"
    /\ \E got \in SUBSET RequestedKeys(conv.all, conv.preferred) :
          LET rated == RatedUpdates(ToConvert(conv.all, conv.preferred), conv.all,
                                    conv.preferred, got)
          IN conv' = ConvContinue(
                [conv EXCEPT !.pc = "apply",
                    !.converted = Len(rated),
                    !.queue = rated \o SameCurrencyUpdates(
                        SameCurrency(conv.all, conv.preferred), conv.all,
                        conv.preferred)])
    /\ UNCHANGED <<purchases, tagAssignments, selected, task, del, panel, ingest>>

\* await db.purchases.update(p.id, { convertedPrice, convertedCurrency })
ConvApplyStep ==
    /\ conv.pc = "apply"
    /\ purchases' = DbUpdate(purchases, Head(conv.queue).id, Head(conv.queue).changes)
    /\ conv' = ConvContinue([conv EXCEPT !.queue = Tail(@)])
    /\ UNCHANGED <<tagAssignments, selected, task, del, panel, ingest>>

\* Candidates of two items, each under its own id, that differ in price and in
\* currency.
ConvertPool == {Purchase(PurchaseIdSeq[n], "allegro", ItemIdSeq[n], core, OptNone) :
                   n \in DOMAIN PurchaseIdSeq,
                   core \in {CoreA, CorePrice, CoreCurrency}}

NextConvert ==
    \/ CallAddWhenQuiet(ConvertPool)
    \/ TakeResult
    \/ StoredStep
    \/ \E c \in Currencies : ConvertCall(c)
    \/ ConvSnapshotStep
    \/ ConvRatesStep
    \/ ConvApplyStep

\* allPurchases.filter(currency !== preferred)
RebuildToConvert(all, preferred) ==
    SelectSeq(PurchaseIdSeq,
              LAMBDA id : id \in DOMAIN all /\ all[id].currency # preferred)

\* allPurchases.filter(currency === preferred)
RebuildSameCurrency(all, preferred) ==
    SelectSeq(PurchaseIdSeq,
              LAMBDA id : id \in DOMAIN all /\ all[id].currency = preferred)

\* The keys rebuildConvertedPrices asks batchFetchRates for.
RebuildRequestedKeys(all, preferred) ==
    {RateKey(all[RebuildToConvert(all, preferred)[n]], preferred) :
        n \in DOMAIN RebuildToConvert(all, preferred)}

\* rebuildConvertedPrices(preferredCurrency), up to its first await.
RebuildCall(preferred) ==
    /\ NoOperation
    /\ conv' = [ConvIdle EXCEPT !.pc = "snapshot",
                                !.op = "rebuildConvertedPrices",
                                !.preferred = preferred]
    /\ UNCHANGED <<purchases, tagAssignments, selected, task, del, panel, ingest>>

\* The same-currency updates are written: with nothing to convert the function
\* returns 0, otherwise it awaits batchFetchRates(requests).
RebuildContinue(c) ==
    IF c.queue # <<>> THEN c
    ELSE IF RebuildToConvert(c.all, c.preferred) = <<>>
         THEN [c EXCEPT !.pc = "done", !.all = <<>>]
         ELSE [c EXCEPT !.pc = "rates"]

\* const allPurchases = await db.purchases.toArray(), and the filters.
RebuildSnapshotStep ==
    /\ conv.pc = "snapshot"
    /\ conv.op = "rebuildConvertedPrices"
    /\ conv' = RebuildContinue(
                  [conv EXCEPT !.pc = "same", !.all = purchases,
                      !.queue = SameCurrencyUpdates(
                          RebuildSameCurrency(purchases, conv.preferred),
                          purchases, conv.preferred)])
    /\ UNCHANGED <<purchases, tagAssignments, selected, task, del, panel, ingest>>

\* await db.purchases.update(p.id, { convertedPrice: p.price, ... }) of the
\* same-currency loop.
RebuildSameStep ==
    /\ conv.pc = "same"
    /\ purchases' = DbUpdate(purchases, Head(conv.queue).id, Head(conv.queue).changes)
    /\ conv' = RebuildContinue([conv EXCEPT !.queue = Tail(@)])
    /\ UNCHANGED <<tagAssignments, selected, task, del, panel, ingest>>

\* const rates = await batchFetchRates(requests): a rate for each requested key
\* whose fetch succeeded; the updates of the rated records are queued.
RebuildRatesStep ==
    /\ conv.pc = "rates"
    /\ conv.op = "rebuildConvertedPrices"
    /\ \E got \in SUBSET RebuildRequestedKeys(conv.all, conv.preferred) :
          LET rated == RatedUpdates(RebuildToConvert(conv.all, conv.preferred),
                                    conv.all, conv.preferred, got)
          IN conv' = ConvContinue(
                [conv EXCEPT !.pc = "apply", !.converted = Len(rated),
                             !.queue = rated])
    /\ UNCHANGED <<purchases, tagAssignments, selected, task, del, panel, ingest>>

NextRebuild ==
    \/ CallAddWhenQuiet(ConvertPool)
    \/ TakeResult
    \/ StoredStep
    \/ \E c \in Currencies : RebuildCall(c)
    \/ RebuildSnapshotStep
    \/ RebuildSameStep
    \/ RebuildRatesStep
    \/ ConvApplyStep

\* ------------------------------------------------- file import and sync

MaxPages == 2

\* How many times the user starts each handler.
MaxCalls == 1

\* The providers with fetchPurchases (allegro is the hybrid one).
ApiProviders == {"allegro"}

UiInit ==
    [importingProviderId |-> None, importProgress |-> <<>>, importResult |-> <<>>,
     errors |-> [p \in ProviderIds |-> ""],
     successMessages |-> [p \in ProviderIds |-> ""],
     syncingIds |-> {}]

ImpIdle == [pc |-> "idle", provider |-> "", runs |-> 0]

SyncIdle == [pc |-> "idle", provider |-> "", pagesLeft |-> 0, hasMore |-> FALSE,
             cursor |-> None, totalAdded |-> 0, error |-> "", runs |-> 0,
             tokenValid |-> TRUE, merged |-> <<>>]

\* The import overlay (fixed inset-0 z-50) covers the provider cards.
OverlayShown == ui.importProgress # <<>> /\ ui.importingProviderId # None

ZeroProgress(total) ==
    [total |-> total, processed |-> 0, added |-> 0, skipped |-> 0, updated |-> 0]

\* What a provider's parseImportFile or fetchPurchases hands over: records of
\* that provider under the provider's own id, which its mapper derives from
\* the order (so two items of one order share it).
ProviderPurchaseId(pid) == IF pid = "allegro" THEN "p1" ELSE "p2"

ProviderPool(pid) ==
    {Purchase(ProviderPurchaseId(pid), pid, "i1", CoreA, OptNone),
     Purchase(ProviderPurchaseId(pid), pid, "i1", CoreTitle, OptNone)}

\* What parseImportFile hands over: for Allegro also a record of the CSV
\* mapper, whose id (allegro-csv-<offer>-<date>-<row>) differs from the id the
\* API mapper gives the same offer (allegro-<order>-<line>) while the
\* providerItemId, the offer id, is the same.
ImportPool(pid) ==
    ProviderPool(pid)
        \cup (IF pid = "allegro"
              THEN {Purchase(CsvPurchaseId, pid, "i1", CoreA, OptNone)}
              ELSE {})

\* updateSyncState(providerId, updates): db.syncState.update on a stored row,
\* db.syncState.add({ providerId, status: 'idle', ...updates }) otherwise.
UpdatedSyncState(tbl, pid, updates) ==
    LET base == IF pid \in DOMAIN tbl THEN tbl[pid]
                ELSE [providerId |-> pid, status |-> "idle", lastSyncAt |-> None,
                      cursor |-> None, error |-> None]
        row == [f \in DOMAIN base |->
                   IF f \in DOMAIN updates THEN updates[f] ELSE base[f]]
    IN [p \in (DOMAIN tbl) \cup {pid} |-> IF p = pid THEN row ELSE tbl[p]]

\* handleFileImport for the chosen provider, up to
\* await provider.validateImportFile(file).
ImportCall(pid) ==
    /\ imp.pc = "idle"
    /\ imp.runs < MaxCalls
    /\ ~OverlayShown
    /\ imp' = [pc |-> "validate", provider |-> pid, runs |-> imp.runs + 1]
    /\ UNCHANGED <<purchases, tagAssignments, selected, task, del, conv, ui, sync,
                   syncState, ingest>>

\* The validator's error list is not empty: the errors are shown, and the
\* handler goes on to parse the file all the same.
ImportInvalidStepGoesOn ==
    /\ imp.pc = "validate"
    /\ ui' = [ui EXCEPT !.errors[imp.provider] = "validation errors"]
    /\ imp' = [imp EXCEPT !.pc = "parse"]
    /\ UNCHANGED <<purchases, tagAssignments, selected, task, del, conv, sync,
                   syncState, ingest>>

\* The validator's error list is not empty: the errors are shown and the
\* handler returns.
ImportInvalidStep ==
    /\ imp.pc = "validate"
    /\ ui' = [ui EXCEPT !.errors[imp.provider] = "validation errors"]
    /\ imp' = [ImpIdle EXCEPT !.runs = imp.runs]
    /\ UNCHANGED <<purchases, tagAssignments, selected, task, del, conv, sync,
                   syncState, ingest>>

\* The file is valid: progress tracking starts, up to
\* await provider.parseImportFile(file).
ImportValidStep ==
    /\ imp.pc = "validate"
    /\ ui' = [ui EXCEPT !.importingProviderId = imp.provider,
                        !.importProgress = <<ZeroProgress(0)>>,
                        !.errors[imp.provider] = "",
                        !.successMessages[imp.provider] = ""]
    /\ imp' = [imp EXCEPT !.pc = "parse"]
    /\ UNCHANGED <<purchases, tagAssignments, selected, task, del, conv, sync,
                   syncState, ingest>>

\* The file is parsed and addPurchases(purchases, onProgress) is called.
ImportParseStep ==
    /\ imp.pc = "parse"
    /\ \E batch \in BatchesOf(ImportPool(imp.provider)) :
          /\ task' = [task EXCEPT !["import"] = BeginAdd(batch, TRUE, purchases, FALSE)]
          /\ ui' = [ui EXCEPT !.importProgress = <<ZeroProgress(Len(batch))>>]
    /\ imp' = [imp EXCEPT !.pc = "adding"]
    /\ UNCHANGED <<purchases, tagAssignments, selected, del, conv, sync, syncState, ingest>>

\* One step of the import's addPurchases; a progress report reaches
\* setImportProgress.
ImportTaskStep ==
    /\ AddPurchasesStep("import")
    /\ ui' = IF task'["import"].progress # task["import"].progress
             THEN [ui EXCEPT !.importProgress = task'["import"].progress]
             ELSE ui
    /\ UNCHANGED <<tagAssignments, selected, del, conv, imp, sync, syncState, ingest>>

\* The continuation of await addPurchases: the summary, or the catch block.
ImportSettleStep ==
    /\ imp.pc = "adding"
    /\ task["import"].pc \in {"returned", "rejected"}
    /\ ui' = IF task["import"].pc = "returned"
             THEN [ui EXCEPT !.importProgress = <<>>,
                             !.importingProviderId = None,
                             !.importResult = task["import"].result]
             ELSE [ui EXCEPT !.errors[imp.provider] = task["import"].error,
                             !.importProgress = <<>>,
                             !.importingProviderId = None]
    /\ task' = [task EXCEPT !["import"] = IdleTask]
    /\ imp' = [ImpIdle EXCEPT !.runs = imp.runs]
    /\ UNCHANGED <<purchases, tagAssignments, selected, del, conv, sync, syncState, ingest>>

\* handleSync(providerId) and syncProvider up to
\* await updateSyncState(providerId, { status: 'syncing' }).
SyncCall(pid) ==
    /\ sync.pc = "idle"
    /\ sync.runs < MaxCalls
    /\ ~OverlayShown
    /\ pid \notin ui.syncingIds
    /\ ui' = [ui EXCEPT !.syncingIds = @ \cup {pid},
                        !.errors[pid] = "",
                        !.successMessages[pid] = ""]
    /\ \E pages \in 1..MaxPages, valid \in BOOLEAN :
          sync' = [SyncIdle EXCEPT !.pc = "marking", !.provider = pid,
                                   !.pagesLeft = pages,
                                   !.tokenValid = valid,
                                   !.runs = sync.runs + 1]
    /\ UNCHANGED <<purchases, tagAssignments, selected, task, del, conv, imp,
                   syncState, ingest>>

\* updateSyncState(providerId, { status: 'syncing' }), then either
\* await provider.refreshToken(credentials) when provider.isAuthenticated
\* says no, or await db.syncState.get(providerId).
SyncMarkStep ==
    /\ sync.pc = "marking"
    /\ syncState' = UpdatedSyncState(syncState, sync.provider,
                                     [status |-> "syncing"])
    /\ sync' = [sync EXCEPT !.pc = IF sync.tokenValid THEN "cursor" ELSE "refresh"]
    /\ UNCHANGED <<purchases, tagAssignments, selected, task, del, conv, ui, imp, ingest>>

\* refreshToken resolves: updateCredentials stores the new tokens, up to
\* await db.syncState.get(providerId).
SyncRefreshStep ==
    /\ sync.pc = "refresh"
    /\ sync' = [sync EXCEPT !.pc = "cursor", !.tokenValid = TRUE]
    /\ UNCHANGED <<purchases, tagAssignments, selected, task, del, conv, ui, imp,
                   syncState, ingest>>

\* refreshToken throws: the catch block, up to
\* await updateSyncState(providerId, { status: 'error', error: message }).
SyncRefreshFailStep ==
    /\ sync.pc = "refresh"
    /\ sync' = [sync EXCEPT !.pc = "failing", !.error = "TokenError"]
    /\ UNCHANGED <<purchases, tagAssignments, selected, task, del, conv, ui, imp,
                   syncState, ingest>>

\* const syncState = await db.syncState.get(providerId); the first
\* fetchPurchases is issued.
SyncCursorStep ==
    /\ sync.pc = "cursor"
    /\ sync' = [sync EXCEPT !.pc = "fetch", !.hasMore = TRUE,
                            !.cursor = syncState[sync.provider].cursor]
    /\ UNCHANGED <<purchases, tagAssignments, selected, task, del, conv, ui, imp,
                   syncState, ingest>>

\* await provider.fetchPurchases(...) returns a page, and
\* addPurchases(result.purchases) is called.
SyncFetchStep ==
    /\ sync.pc = "fetch"
    /\ \E batch \in BatchesOf(ProviderPool(sync.provider)) :
          task' = [task EXCEPT !["sync"] = BeginAdd(batch, FALSE, purchases, FALSE)]
    /\ sync' = [sync EXCEPT !.pc = "adding", !.pagesLeft = @ - 1,
                            !.hasMore = (sync.pagesLeft > 1)]
    /\ UNCHANGED <<purchases, tagAssignments, selected, del, conv, ui, imp,
                   syncState, ingest>>

\* fetchPurchases throws: the catch block, up to
\* await updateSyncState(providerId, { status: 'error', error: message }).
SyncFetchFailStep ==
    /\ sync.pc = "fetch"
    /\ sync' = [sync EXCEPT !.pc = "failing", !.error = "NetworkError"]
    /\ UNCHANGED <<purchases, tagAssignments, selected, task, del, conv, ui, imp,
                   syncState, ingest>>

\* One step of the page's addPurchases (called without an observer).
SyncTaskStep ==
    /\ AddPurchasesStep("sync")
    /\ UNCHANGED <<tagAssignments, selected, del, conv, panel, ingest>>

\* The continuation of await addPurchases: the next page, the end of the
\* loop, or the catch block.
SyncAddedStep ==
    /\ sync.pc = "adding"
    /\ task["sync"].pc \in {"returned", "rejected"}
    /\ sync' = IF task["sync"].pc = "rejected"
               THEN [sync EXCEPT !.pc = "failing", !.error = task["sync"].error]
               ELSE [sync EXCEPT
                        !.totalAdded = @ + task["sync"].result[1].added,
                        !.cursor = IF sync.hasMore THEN "next" ELSE None,
                        !.merged = @ \o task["sync"].trail,
                        !.pc = IF sync.hasMore THEN "fetch" ELSE "finishing"]
    /\ task' = [task EXCEPT !["sync"] = IdleTask]
    /\ UNCHANGED <<purchases, tagAssignments, selected, del, conv, ui, imp,
                   syncState, ingest>>

\* updateSyncState(providerId, { status: 'idle', lastSyncAt, cursor: undefined,
\* error: undefined }); syncProvider returns and handleSync shows the count.
SyncFinishStep ==
    /\ sync.pc = "finishing"
    /\ syncState' = UpdatedSyncState(syncState, sync.provider,
                        [status |-> "idle", lastSyncAt |-> "now",
                         cursor |-> None, error |-> None])
    /\ ui' = [ui EXCEPT !.successMessages[sync.provider] = "Synced",
                        !.syncingIds = @ \ {sync.provider}]
    /\ sync' = [SyncIdle EXCEPT !.runs = sync.runs]
    /\ UNCHANGED <<purchases, tagAssignments, selected, task, del, conv, imp, ingest>>

\* The failure is recorded as a finished sync.
FailureUpdatesIdle(message) == [status |-> "idle", error |-> None]

\* { status: 'error', error: message }
FailureUpdates(message) == [status |-> "error", error |-> message]

\* updateSyncState(providerId, { status: 'error', error: message }); the error
\* is rethrown and handleSync shows it.
SyncFailStep ==
    /\ sync.pc = "failing"
    /\ syncState' = UpdatedSyncState(syncState, sync.provider,
                                     FailureUpdates(sync.error))
    /\ ui' = [ui EXCEPT !.errors[sync.provider] = sync.error,
                        !.syncingIds = @ \ {sync.provider}]
    /\ sync' = [SyncIdle EXCEPT !.runs = sync.runs]
    /\ UNCHANGED <<purchases, tagAssignments, selected, task, del, conv, imp, ingest>>

NextCallers ==
    \/ \E pid \in ProviderIds : ImportCall(pid)
    \/ ImportInvalidStep
    \/ ImportValidStep
    \/ ImportParseStep
    \/ ImportTaskStep
    \/ ImportSettleStep
    \/ \E pid \in ApiProviders : SyncCall(pid)
    \/ SyncMarkStep
    \/ SyncRefreshStep
    \/ SyncRefreshFailStep
    \/ SyncCursorStep
    \/ SyncFetchStep
    \/ SyncFetchFailStep
    \/ SyncTaskStep
    \/ SyncAddedStep
    \/ SyncFinishStep
    \/ SyncFailStep

\* A provider sync with no other writer at work.
NextSync ==
    \/ \E pid \in ApiProviders : SyncCall(pid)
    \/ SyncMarkStep
    \/ SyncRefreshStep
    \/ SyncRefreshFailStep
    \/ SyncCursorStep
    \/ SyncFetchStep
    \/ SyncFetchFailStep
    \/ SyncTaskStep
    \/ SyncAddedStep
    \/ SyncFinishStep
    \/ SyncFailStep

\* ------------------------------------------------------ provider ingestion

\* No file is being parsed.
IngestIdle == [pc |-> "idle"]

MaxRows == 2

\* A JavaScript number: NaN, or an amount held in hundredths.
NaN == [nan |-> TRUE, cents |-> 0]
Num(c) == [nan |-> FALSE, cents |-> c]

\* a || b on numbers: b when a is 0 or NaN.
NumOr(a, b) == IF a.nan \/ a.cents = 0 THEN b ELSE a

\* a * q for an integer q.
NumTimes(a, q) == IF a.nan THEN NaN ELSE Num(a.cents * q)

\* Price texts are sequences of characters.
DigitSeq == <<"0", "1", "2", "3", "4", "5", "6", "7", "8", "9">>
DigitChars == {DigitSeq[n] : n \in DOMAIN DigitSeq}
DigitValue(ch) == (CHOOSE n \in DOMAIN DigitSeq : DigitSeq[n] = ch) - 1

\* The longest prefix of s made of characters of the set.
RECURSIVE TakeWhile(_, _)
TakeWhile(s, set) ==
    IF s = <<>> \/ Head(s) \notin set THEN <<>>
    ELSE <<Head(s)>> \o TakeWhile(Tail(s), set)

\* s without its characters of the set / with only those.
Without(s, set) == SelectSeq(s, LAMBDA ch : ch \notin set)
Only(s, set) == SelectSeq(s, LAMBDA ch : ch \in set)

Reverse(s) == [n \in 1..Len(s) |-> s[Len(s) + 1 - n]]

Quote == "\""
Comma == ","
LF == "\n"
CR == "\r"
Apostrophe == "'"
Semicolon == ";"

Whitespace == {" ", "\t", LF, CR}

\* trim()
Trim(s) ==
    LET lead == TakeWhile(s, Whitespace)
        unled == SubSeq(s, Len(lead) + 1, Len(s))
        trail == TakeWhile(Reverse(unled), Whitespace)
    IN SubSeq(unled, 1, Len(unled) - Len(trail))

\* The value of a run of digits.
RECURSIVE DigitsValue(_)
DigitsValue(ds) ==
    IF ds = <<>> THEN 0
    ELSE DigitsValue(SubSeq(ds, 1, Len(ds) - 1)) * 10 + DigitValue(ds[Len(ds)])

\* The hundredths in a run of fraction digits (digits past the second do not
\* occur in the price texts used).
Hundredths(fs) ==
    IF fs = <<>> THEN 0
    ELSE IF Len(fs) = 1 THEN DigitValue(fs[1]) * 10
    ELSE DigitValue(fs[1]) * 10 + DigitValue(fs[2])

\* parseFloat: an optional sign, digits, an optional point and digits; what
\* follows is ignored, and NaN when no digit is found.
ParseFloat(s) ==
    LET signed == s # <<>> /\ Head(s) \in {"-", "+"}
        body == IF signed THEN Tail(s) ELSE s
        ip == TakeWhile(body, DigitChars)
        rest == SubSeq(body, Len(ip) + 1, Len(body))
        fp == IF rest # <<>> /\ Head(rest) = "."
              THEN TakeWhile(Tail(rest), DigitChars) ELSE <<>>
        magnitude == DigitsValue(ip) * 100 + Hundredths(fp)
    IN IF ip = <<>> /\ fp = <<>> THEN NaN
       ELSE IF signed /\ Head(s) = "-" THEN Num(0 - magnitude)
       ELSE Num(magnitude)

\* parseFloat(text) || 0
ParseFloatOrZero(s) == NumOr(ParseFloat(s), Num(0))

\* text.replace(',', '.'): the first comma only.
RECURSIVE ReplaceFirstComma(_)
ReplaceFirstComma(s) ==
    IF s = <<>> THEN <<>>
    ELSE IF Head(s) = "," THEN <<".">> \o Tail(s)
    ELSE <<Head(s)>> \o ReplaceFirstComma(Tail(s))

\* lastIndexOf, counted from 1, 0 when the character is absent.
LastIndexOf(s, ch) ==
    IF \E n \in DOMAIN s : s[n] = ch
    THEN CHOOSE n \in DOMAIN s : s[n] = ch /\ \A m \in DOMAIN s : s[m] = ch => m <= n
    ELSE 0

\* includes(sub)
Includes(s, sub) ==
    \E n \in 0..(Len(s) - Len(sub)) : SubSeq(s, n + 1, n + Len(sub)) = sub

\* A string field that is undefined or empty is falsy.
Blank(v) == v = None \/ v = ""

\* The same for a text held as characters; an absent one is <<None>>.
Absent == <<None>>
BlankText(t) == t = Absent \/ t = <<>>

\* row[a] ?? row[b]: the first that is not undefined.
Coalesce(a, b) == IF a # None THEN a ELSE b
CoalesceText(a, b) == IF a # Absent THEN a ELSE b

QuoteChars == {"'", "\""}

\* Amazon parsePrice(raw): surrounding quotes and apostrophes stripped,
\* commas removed, parseFloat, 0 for NaN.
AmazonParsePrice(raw) ==
    IF BlankText(raw) THEN Num(0)
    ELSE LET lead == TakeWhile(raw, QuoteChars)
             unled == SubSeq(raw, Len(lead) + 1, Len(raw))
             trail == TakeWhile(Reverse(unled), QuoteChars)
             cleaned == Without(SubSeq(unled, 1, Len(unled) - Len(trail)), {","})
             val == ParseFloat(cleaned)
         IN IF val.nan THEN Num(0) ELSE val

UpperSeq == <<"P", "L", "N", "E", "U", "R", "S", "D", "G", "B">>
LowerSeq == <<"p", "l", "n", "e", "u", "r", "s", "d", "g", "b">>

\* toLowerCase, over the letters the price texts use.
ToLowerCase(s) ==
    [n \in DOMAIN s |->
        IF \E k \in DOMAIN UpperSeq : UpperSeq[k] = s[n]
        THEN LowerSeq[CHOOSE k \in DOMAIN UpperSeq : UpperSeq[k] = s[n]]
        ELSE s[n]]

\* Characters outside ASCII, by name.
LStroke == "l-stroke"
EuroSign == "euro-sign"
PoundSign == "pound-sign"

\* Temu detectCurrency(priceStr), over the currencies the price texts name.
DetectCurrency(priceStr) ==
    LET lower == ToLowerCase(priceStr)
        has(sub) == Includes(lower, sub)
    IN IF has(<<"z", LStroke>>) \/ has(<<"p", "l", "n">>) THEN "PLN"
       ELSE IF has(<<EuroSign>>) \/ has(<<"e", "u", "r">>) THEN "EUR"
       ELSE IF has(<<PoundSign>>) \/ has(<<"g", "b", "p">>) THEN "GBP"
       ELSE IF has(<<"$">>) \/ has(<<"u", "s", "d">>) THEN "USD"
       ELSE "USD"

PriceChars == DigitChars \cup {".", ",", "-"}

\* The amount of a cleaned price text, with the last of comma and point as
\* the decimal separator.
SeparatedAmount(cleaned) ==
    IF cleaned = <<>> THEN Num(0)
    ELSE IF Includes(cleaned, <<",">>) /\ ~Includes(cleaned, <<".">>)
         THEN ParseFloatOrZero(ReplaceFirstComma(cleaned))
    ELSE IF LastIndexOf(cleaned, ",") > LastIndexOf(cleaned, ".")
         THEN ParseFloatOrZero(ReplaceFirstComma(Without(cleaned, {"."})))
    ELSE ParseFloatOrZero(Without(cleaned, {","}))

\* Temu parsePrice(raw): { amount, currency }
TemuParsePrice(raw) ==
    IF BlankText(raw) \/ Without(raw, {" "}) = <<>>
    THEN [amount |-> Num(0), currency |-> "USD"]
    ELSE [amount |-> SeparatedAmount(Only(raw, PriceChars)),
          currency |-> DetectCurrency(raw)]

\* AliExpress parsePrice(raw): the minus sign is not kept.
AliexpressParsePrice(raw) ==
    IF BlankText(raw) THEN Num(0)
    ELSE SeparatedAmount(Only(raw, PriceChars \ {"-"}))

\* parseInt(text, 10): an optional sign and digits; NaN without a digit.
ParseInt(s) ==
    LET signed == s # <<>> /\ Head(s) \in {"-", "+"}
        ds == TakeWhile(IF signed THEN Tail(s) ELSE s, DigitChars)
    IN IF ds = <<>> THEN NaN
       ELSE IF signed /\ Head(s) = "-" THEN Num(0 - DigitsValue(ds) * 100)
       ELSE Num(DigitsValue(ds) * 100)

\* parseInt(text ?? '1', 10) || 1, as a count.
QuantityOf(text) ==
    LET q == ParseInt(IF BlankText(text) THEN <<"1">> ELSE text)
    IN IF q.nan \/ q.cents = 0 THEN 1 ELSE q.cents \div 100

\* text.split('|')
RECURSIVE UntilBar(_)
UntilBar(s) ==
    IF s = <<>> \/ Head(s) = "|" THEN <<>>
    ELSE <<Head(s)>> \o UntilBar(Tail(s))

RECURSIVE SplitBar(_)
SplitBar(s) ==
    LET first == UntilBar(s)
    IN IF Len(first) = Len(s) THEN <<first>>
       ELSE <<first>> \o SplitBar(SubSeq(s, Len(first) + 2, Len(s)))

\* AliExpress parsePriceInfo(priceInfo): "US $120.95|120|95"
ParsePriceInfo(priceInfo) ==
    IF BlankText(priceInfo) THEN Num(0)
    ELSE LET parts == SplitBar(priceInfo)
         IN IF Len(parts) >= 3
            THEN Num(NumOr(ParseInt(parts[2]), Num(0)).cents
                     + NumOr(ParseInt(parts[3]), Num(0)).cents \div 100)
            ELSE AliexpressParsePrice(parts[1])

\* Dates. A Date is an instant known to the minute, the current instant, an
\* Invalid Date, or (where a mapper stores the text unparsed) the raw text.
Instant(y, mo, d, h, mi) ==
    [kind |-> "instant", y |-> y, mo |-> mo, d |-> d, h |-> h, mi |-> mi]
DateOfKind(kind) == [kind |-> kind, y |-> 0, mo |-> 0, d |-> 0, h |-> 0, mi |-> 0]
Now == DateOfKind("now")
InvalidDate == DateOfKind("invalid")

\* The hours the host's clock is ahead of UTC, as the host of the import has it.
HostZones == {0, 2}
HostZone == ingest.zone

\* Midnight of a day on the host's clock (for days after the first of a month).
LocalMidnight(y, mo, d) ==
    IF HostZone = 0 THEN Instant(y, mo, d, 0, 0)
    ELSE Instant(y, mo, d - 1, 24 - HostZone, 0)

\* text.split(one of the separators)
RECURSIVE SplitOn(_, _)
SplitOn(s, seps) ==
    LET first == TakeWhile(s, {s[n] : n \in DOMAIN s} \ seps)
    IN IF Len(first) = Len(s) THEN <<first>>
       ELSE <<first>> \o SplitOn(SubSeq(s, Len(first) + 2, Len(s)), seps)

IsDigits(s) == s # <<>> /\ \A n \in DOMAIN s : s[n] \in DigitChars

\* Three runs of digits of the given lengths.
DigitRuns(parts, first, others) ==
    /\ Len(parts) = 3
    /\ \A n \in 1..3 : IsDigits(parts[n])
    /\ Len(parts[1]) \in first
    /\ Len(parts[2]) \in others
    /\ Len(parts[3]) \in others

\* new Date(text): ISO dates are read in UTC, a full ISO stamp ending in Z as
\* the instant it names, the slash forms and loose dash forms on the host's
\* clock; anything else is an Invalid Date.
NativeDate(t) ==
    LET dashed == SplitOn(t, {"-"})
        slashed == SplitOn(t, {"/"})
    IN IF Len(t) = 10 /\ DigitRuns(dashed, {4}, {2})
       THEN Instant(DigitsValue(dashed[1]), DigitsValue(dashed[2]),
                    DigitsValue(dashed[3]), 0, 0)
       ELSE IF /\ Len(t) = 20
               /\ DigitRuns(SplitOn(SubSeq(t, 1, 10), {"-"}), {4}, {2})
               /\ t[11] = "T" /\ t[14] = ":" /\ t[17] = ":" /\ t[20] = "Z"
               /\ IsDigits(SubSeq(t, 12, 13)) /\ IsDigits(SubSeq(t, 15, 16))
               /\ IsDigits(SubSeq(t, 18, 19))
       THEN Instant(DigitsValue(SubSeq(t, 1, 4)), DigitsValue(SubSeq(t, 6, 7)),
                    DigitsValue(SubSeq(t, 9, 10)), DigitsValue(SubSeq(t, 12, 13)),
                    DigitsValue(SubSeq(t, 15, 16)))
       ELSE IF DigitRuns(dashed, {4}, {1, 2})
       THEN LocalMidnight(DigitsValue(dashed[1]), DigitsValue(dashed[2]),
                          DigitsValue(dashed[3]))
       ELSE IF DigitRuns(slashed, {4}, {1, 2})
       THEN LocalMidnight(DigitsValue(slashed[1]), DigitsValue(slashed[2]),
                          DigitsValue(slashed[3]))
       ELSE IF DigitRuns(Reverse(slashed), {4}, {1, 2})
       THEN LocalMidnight(DigitsValue(slashed[3]), DigitsValue(slashed[1]),
                          DigitsValue(slashed[2]))
       ELSE InvalidDate

\* text ? new Date(text).toISOString() : new Date().toISOString(); an Invalid
\* Date stands for the RangeError toISOString throws.
ToIsoOrNow(text) == IF BlankText(text) THEN Now ELSE NativeDate(text)

\* The same inside try { } catch { now }.
ToIsoCaught(text) ==
    IF BlankText(text) \/ NativeDate(text).kind = "invalid" THEN Now
    ELSE NativeDate(text)

Pad2(n) == IF n < 10 THEN "0" \o ToString(n) ELSE ToString(n)

\* iso.split('T')[0]
IsoDayOf(date) ==
    IF date.kind = "instant"
    THEN ToString(date.y) \o "-" \o Pad2(date.mo) \o "-" \o Pad2(date.d)
    ELSE IF date.kind = "now" THEN "today" ELSE "invalid"

\* Temu parseDate(raw)
ParseDate(raw) ==
    IF BlankText(raw) \/ Trim(raw) = <<>> THEN Now
    ELSE LET trimmed == Trim(raw)
             ymd == SplitOn(trimmed, {"/", "-"})
         IN IF DigitRuns(ymd, {4}, {1, 2})
            THEN Instant(DigitsValue(ymd[1]), DigitsValue(ymd[2]),
                         DigitsValue(ymd[3]), 12, 0)
            ELSE IF NativeDate(trimmed).kind = "instant" THEN NativeDate(trimmed)
            ELSE Now

\* The characters of a text as one string.
RECURSIVE Str(_)
Str(t) == IF t = <<>> THEN "" ELSE Head(t) \o Str(Tail(t))

\* Date texts.
DIso == <<"2", "0", "2", "4", "-", "0", "1", "-", "1", "5">>
DSlash == <<"2", "0", "2", "3", "/", "1", "1", "/", "1", "4">>
DUs == <<"1", "1", "/", "1", "4", "/", "2", "0", "2", "3">>
DStamp == <<"2", "0", "2", "3", "-", "1", "1", "-", "1", "4", "T",
            "0", "8", ":", "3", "0", ":", "0", "0", "Z">>
DBad == <<"n", "/", "a">>

\* A source record as the export holds it: a CSV row, a JSON item or a
\* spreadsheet row. Its fields stand for the provider's own columns (orderId:
\* 'Order ID' / orderLineId / order_id; itemId: ASIN / 'Product ID' / id /
\* 'Numer oferty'; title: 'Product Name' / 'Item description at order time' /
\* item_name; status: 'Order Status' / Status / order_status; unitPrice:
\* 'Unit Price' / Price / price; total: 'Total Amount' / 'Order total' /
\* payable_amt; quantity: 'Original Quantity' / Qty / quantity).
SourceRow(orderId, itemId, title, status, currency, unitPrice, total, quantity) ==
    [orderId |-> orderId, itemId |-> itemId, skuId |-> "s1", title |-> title,
     status |-> status, currency |-> currency, unitPrice |-> unitPrice,
     priceInfo |-> Absent, total |-> total, quantity |-> quantity,
     date |-> DIso]

\* The canonical record a mapper emits, with the fields the checks read.
Mapped(id, pid, item, title, price, currency, purchaseDate) ==
    [id |-> id, providerId |-> pid, providerItemId |-> item, title |-> title,
     price |-> price, currency |-> currency, purchaseDate |-> purchaseDate]

\* new Date(dateStr).toISOString().split('T')[0]
IsoDay(dateStr) == IsoDayOf(NativeDate(dateStr))

\* a || b on strings
StrOr(a, b) == IF Blank(a) THEN b ELSE a

\* Amazon mapRowToPurchase(row, index): null as <<>>.
AmazonMapRowToPurchase(row, index) ==
    LET title == Coalesce(row.title, "")
        orderId == Coalesce(row.orderId, "")
        asin == Coalesce(row.itemId, "")
        currency == Coalesce(row.currency, "EUR")
        quantity == QuantityOf(row.quantity)
        unitPrice == AmazonParsePrice(row.unitPrice)
        totalAmount == AmazonParsePrice(row.total)
        datePart == IF BlankText(row.date) THEN "nodate" ELSE IsoDay(row.date)
    IN IF Blank(title) \/ Blank(orderId) THEN <<>>
       ELSE <<Mapped("amazon-" \o orderId \o "-" \o datePart \o "-"
                        \o StrOr(asin, ToString(index)),
                     "amazon", StrOr(asin, orderId), title,
                     NumOr(totalAmount, NumTimes(unitPrice, quantity)),
                     currency, ToIsoOrNow(row.date))>>

\* Temu mapCsvRowToPurchase(row)
TemuMapCsvRowToPurchase(row) ==
    LET parsed == TemuParsePrice(IF BlankText(row.unitPrice) THEN <<>> ELSE row.unitPrice)
        orderTotal == TemuParsePrice(IF BlankText(row.total) THEN <<>> ELSE row.total).amount
    IN IF Blank(row.title) \/ Blank(row.orderId) THEN <<>>
       ELSE <<Mapped("temu-" \o row.orderId, "temu", row.orderId, row.title,
                     IF orderTotal.cents > 0 THEN orderTotal ELSE parsed.amount,
                     parsed.currency, ParseDate(row.date))>>

\* typeof item.price === 'string' ? parseFloat(item.price) : (item.price ?? 0),
\* for a price given as text or left out.
JsonPrice(text) == IF text = Absent THEN Num(0) ELSE ParseFloat(text)

\* The item mapping of olxProvider.parseImportFile and of
\* allegroLokalnieProvider.parseImportFile (index from 0).
ListingMapItem(pid, item, index) ==
    LET quantity == IF item.quantity = Absent THEN 1
                    ELSE ParseInt(item.quantity).cents \div 100
        ident == Coalesce(item.itemId, ToString(index))
    IN <<Mapped(pid \o "-" \o IsoDayOf(ToIsoOrNow(item.date)) \o "-" \o ident,
                pid, ident,
                Coalesce(item.title, "Unknown Item"),
                NumTimes(JsonPrice(item.unitPrice), quantity),
                Coalesce(item.currency, "PLN"), ToIsoOrNow(item.date))>>

\* The item mapping of vintedProvider.parseImportFile.
VintedMapItem(item, index) ==
    LET ident == Coalesce(item.itemId, ToString(index))
    IN <<Mapped("vinted-" \o ident, "vinted", ident,
                Coalesce(item.title, "Unknown Item"),
                JsonPrice(item.unitPrice),
                Coalesce(item.currency, "EUR"), ToIsoOrNow(item.date))>>

\* eBay mapToPayment(item, index)
EbayMapToPayment(item, index) ==
    <<Mapped("ebay-" \o Coalesce(item.orderId, ToString(index)), "ebay",
             Coalesce(item.itemId, Coalesce(item.orderId, ToString(index))),
             Coalesce(item.title, "Unknown Item"),
             JsonPrice(item.unitPrice),
             Coalesce(item.currency, "USD"), ToIsoOrNow(item.date))>>

\* The row mapping of ebayProvider.parseImportFile for CSV (i from 1).
EbayMapCsvRow(row, i) ==
    <<Mapped("ebay-" \o Coalesce(row.orderId, ToString(i)), "ebay",
             Coalesce(row.itemId, ToString(i)),
             Coalesce(row.title, "Unknown Item"),
             ParseFloatOrZero(Only(CoalesceText(row.unitPrice,
                                   CoalesceText(row.total, <<"0">>)),
                                   DigitChars \cup {".", "-"})),
             Coalesce(row.currency, "USD"), ToIsoOrNow(row.date))>>

\* AliExpress mapJsonItemToPurchase(item)
AliexpressMapJsonItem(item) ==
    LET price == NumOr(ParsePriceInfo(item.priceInfo),
                       AliexpressParsePrice(item.unitPrice))
        quantity == IF item.quantity = Absent THEN 1
                    ELSE NumOr(ParseInt(item.quantity), Num(100)).cents \div 100
    IN <<Mapped("aliexpress-" \o item.orderId \o "-" \o item.itemId \o "-"
                   \o item.skuId,
                "aliexpress", item.itemId, item.title,
                NumTimes(price, quantity), StrOr(item.currency, "USD"),
                IF BlankText(item.date) THEN InvalidDate ELSE NativeDate(item.date))>>

\* AliExpress mapCsvRowToPurchase(row)
AliexpressMapCsvRow(row) ==
    LET price == NumOr(ParsePriceInfo(row.priceInfo),
                       AliexpressParsePrice(row.unitPrice))
    IN IF Blank(row.title) \/ Blank(row.orderId) THEN <<>>
       ELSE <<Mapped("aliexpress-" \o row.orderId \o "-" \o row.itemId \o "-"
                        \o row.skuId,
                     "aliexpress", StrOr(row.itemId, row.orderId), row.title,
                     NumTimes(price, QuantityOf(row.quantity)),
                     StrOr(row.currency, "USD"), ToIsoCaught(row.date))>>

\* AliExpress mapXlsxRowToPurchase(row): payable_amt is in cents.
AliexpressMapXlsxRow(row) ==
    LET orderId == IF Blank(row.orderId) THEN "" ELSE row.orderId
        itemName == IF Blank(row.title) THEN "" ELSE row.title
    IN IF orderId = "" \/ itemName = "" THEN <<>>
       ELSE <<Mapped("aliexpress-" \o orderId, "aliexpress", orderId, itemName,
                     IF row.total = Absent THEN Num(0)
                     ELSE Num(ParseFloatOrZero(row.total).cents \div 100),
                     "USD", ToIsoCaught(row.date))>>

\* The row mapping of Allegro mapCsvToPurchases (i from 1, after the header).
AllegroMapCsvRow(row, i) ==
    LET offerId == Coalesce(row.itemId, "")
        title == Coalesce(row.title, "")
        unitPrice == ParseFloat(IF row.unitPrice = Absent THEN <<>> ELSE row.unitPrice)
        quantity == QuantityOf(row.quantity)
    IN IF offerId = "" \/ title = "" \/ unitPrice.nan THEN <<>>
       ELSE <<Mapped("allegro-csv-" \o offerId \o "-" \o Str(row.date) \o "-"
                        \o ToString(i),
                     "allegro", offerId, title, NumTimes(unitPrice, quantity),
                     "PLN", DateOfKind("raw"))>>

\* .filter((p) => p !== null) over the mapped rows
RECURSIVE Flatten(_)
Flatten(ss) == IF ss = <<>> THEN <<>> ELSE Head(ss) \o Flatten(Tail(ss))

\* The providers that read files, with the formats each one reads (Allegro's
\* JSON import takes the checkout forms of its API and is not an export).
ImportFormats ==
    {<<"amazon", "csv">>, <<"amazon", "json">>, <<"temu", "csv">>,
     <<"aliexpress", "json">>, <<"aliexpress", "csv">>, <<"aliexpress", "xlsx">>,
     <<"ebay", "json">>, <<"ebay", "csv">>, <<"vinted", "json">>,
     <<"olx", "json">>, <<"allegro-lokalnie", "json">>, <<"allegro", "csv">>}

\* parseImportFile(file) of the provider, on the records the file holds.
ParseImportFile(pid, format, rows) ==
    LET completed == SelectSeq(rows, LAMBDA r : r.status = "Completed")
    IN CASE pid = "amazon" ->
              Flatten([n \in DOMAIN rows |-> AmazonMapRowToPurchase(rows[n], n - 1)])
         [] pid = "temu" ->
              Flatten([n \in DOMAIN rows |-> TemuMapCsvRowToPurchase(rows[n])])
         [] pid = "aliexpress" /\ format = "json" ->
              Flatten([n \in DOMAIN completed |-> AliexpressMapJsonItem(completed[n])])
         [] pid = "aliexpress" /\ format = "csv" ->
              Flatten([n \in DOMAIN completed |-> AliexpressMapCsvRow(completed[n])])
         [] pid = "aliexpress" /\ format = "xlsx" ->
              Flatten([n \in DOMAIN rows |-> AliexpressMapXlsxRow(rows[n])])
         [] pid = "ebay" /\ format = "json" ->
              Flatten([n \in DOMAIN rows |-> EbayMapToPayment(rows[n], n - 1)])
         [] pid = "ebay" /\ format = "csv" ->
              Flatten([n \in DOMAIN rows |-> EbayMapCsvRow(rows[n], n)])
         [] pid = "vinted" ->
              Flatten([n \in DOMAIN rows |-> VintedMapItem(rows[n], n - 1)])
         [] pid \in {"olx", "allegro-lokalnie"} ->
              Flatten([n \in DOMAIN rows |-> ListingMapItem(pid, rows[n], n - 1)])
         [] pid = "allegro" ->
              Flatten([n \in DOMAIN rows |-> AllegroMapCsvRow(rows[n], n)])

\* Price texts.
T500 == <<"5", ".", "0", "0">>
T1250 == <<"1", "2", ".", "5", "0">>
TQuotedMinus == <<"'", "-", "6", ".", "6", "6", "'">>
TMinus == <<"-", "3", ".", "0", "0">>
TZero == <<"0">>
TTwo == <<"2">>
TZloty == <<"7", ",", "4", "8", " ", "z", LStroke>>

\* The records the files hold.
RowPool ==
    {SourceRow("o1", "i1", "Lamp", "Completed", "PLN", T500, T1250, TTwo),
     SourceRow("o1", "i2", "Cable", "Completed", "PLN", T500, Absent, TTwo),
     SourceRow("o1", "i1", "Lamp", "Completed", "PLN", TZloty, TZloty, Absent),
     SourceRow("o2", "i3", "Desk", "Cancelled", "PLN", T500, T1250, Absent),
     SourceRow("o2", "i4", "Chair", "Awaiting shipment", "PLN", T500, Absent, Absent),
     SourceRow("o3", "i5", None, "Completed", "PLN", T500, Absent, Absent),
     SourceRow("o3", "i5", "", "Completed", "PLN", T500, Absent, Absent),
     SourceRow("o4", None, "Mug", "Completed", "PLN", T500, Absent, Absent),
     SourceRow(None, "", "Pen", "Completed", "PLN", T500, Absent, Absent),
     SourceRow("o5", "i6", "Rug", "Completed", "PLN", T500, TQuotedMinus, TTwo),
     SourceRow("o5", "i7", "Mat", "Completed", "PLN", TMinus, Absent, Absent),
     SourceRow("o6", "i8", "Cup", "Completed", "PLN", T500, TZero, TTwo),
     SourceRow("o7", "i9", "Pot", "Completed", "", T500, Absent, Absent),
     SourceRow("o7", "i9", "Pan", "Completed", None, T500, Absent, Absent),
     SourceRow("o8", "i10", "Vase", "Completed", "PLN", DBad, Absent, Absent)}
       \cup {[SourceRow("o9", "i11", "Bowl", "Completed", "PLN", T500, Absent, Absent)
                 EXCEPT !.date = d] : d \in {DSlash, DUs, DStamp, DBad, <<>>}}

FilesOf(n) == [1..n -> RowPool]

\* The user picks a file for a provider that reads its format.
OpenFile ==
    /\ ingest.pc = "idle"
    /\ \E pf \in ImportFormats, n \in 0..MaxRows, zone \in HostZones :
          \E rows \in FilesOf(n) :
             ingest' = [pc |-> "opened", provider |-> pf[1], format |-> pf[2],
                        zone |-> zone, rows |-> rows]
    /\ UNCHANGED <<purchases, tagAssignments, selected, task, del, conv, panel>>

\* provider.parseImportFile(file) settles with the mapped records, or
\* rejects when toISOString threw on an Invalid Date.
ParseFileStep ==
    /\ ingest.pc = "opened"
    /\ LET out == ParseImportFile(ingest.provider, ingest.format, ingest.rows)
       IN IF \E n \in DOMAIN out : out[n].purchaseDate.kind = "invalid"
          THEN ingest' = [pc |-> "failed", provider |-> ingest.provider,
                          format |-> ingest.format, zone |-> ingest.zone,
                          rows |-> ingest.rows, error |-> "RangeError"]
          ELSE ingest' = [pc |-> "parsed", provider |-> ingest.provider,
                          format |-> ingest.format, zone |-> ingest.zone,
                          rows |-> ingest.rows, out |-> out]
    /\ UNCHANGED <<purchases, tagAssignments, selected, task, del, conv, panel>>

\* The records are handed on and the file is let go.
CloseFile ==
    /\ ingest.pc \in {"parsed", "failed"}
    /\ ingest' = IngestIdle
    /\ UNCHANGED <<purchases, tagAssignments, selected, task, del, conv, panel>>

NextIngest == OpenFile \/ ParseFileStep \/ CloseFile

\* ---------------------------------------------------------- CSV tokenizers
MaxText == 5

\* The state of parseCsvToRows before the first character.
ScanStart == [rows |-> <<>>, current |-> <<>>, field |-> <<>>, inQuotes |-> FALSE]

\* current.some((f) => f.length > 0)
SomeFilled(fields) == \E n \in DOMAIN fields : fields[n] # <<>>

\* Inside quotes a doubled quote is read as one and a single quote closes,
\* as if the doubled quote were not looked for.
InQuotesStepSingle(st, ch, next) ==
    IF ch = Quote
    THEN [st |-> [st EXCEPT !.inQuotes = FALSE], skip |-> 1]
    ELSE [st |-> [st EXCEPT !.field = Append(@, ch)], skip |-> 1]

\* One turn of the loop inside quotes: the state after it and the number of
\* characters taken.
InQuotesStep(st, ch, next) ==
    IF ch = Quote /\ next = Quote
    THEN [st |-> [st EXCEPT !.field = Append(@, Quote)], skip |-> 2]
    ELSE IF ch = Quote
    THEN [st |-> [st EXCEPT !.inQuotes = FALSE], skip |-> 1]
    ELSE [st |-> [st EXCEPT !.field = Append(@, ch)], skip |-> 1]

\* One turn of the loop outside quotes.
OutQuotesStep(st, ch, next) ==
    IF ch = Quote
    THEN [st |-> [st EXCEPT !.inQuotes = TRUE], skip |-> 1]
    ELSE IF ch = Comma
    THEN [st |-> [st EXCEPT !.current = Append(@, st.field), !.field = <<>>],
          skip |-> 1]
    ELSE IF ch = LF \/ (ch = CR /\ next = LF)
    THEN LET row == Append(st.current, st.field)
         IN [st |-> [st EXCEPT !.rows = IF SomeFilled(row) THEN Append(@, row) ELSE @,
                               !.current = <<>>, !.field = <<>>],
             skip |-> IF ch = CR THEN 2 ELSE 1]
    ELSE [st |-> [st EXCEPT !.field = Append(@, ch)], skip |-> 1]

\* The loop of parseCsvToRows from position i (counted from 1): the state
\* when the text is used up.
RECURSIVE CsvLoop(_, _, _)
CsvLoop(text, i, st) ==
    IF i > Len(text) THEN st
    ELSE LET ch == text[i]
             next == IF i < Len(text) THEN text[i + 1] ELSE None
             turn == IF st.inQuotes THEN InQuotesStep(st, ch, next)
                     ELSE OutQuotesStep(st, ch, next)
         IN CsvLoop(text, i + turn.skip, turn.st)

\* The last row is dropped when the text ends inside a quote.
FlushLastRowUnlessQuoted(st) ==
    LET row == Append(st.current, st.field)
    IN IF SomeFilled(row) /\ ~st.inQuotes THEN Append(st.rows, row) ELSE st.rows

\* After the loop: the last row is pushed unless all its fields are empty.
FlushLastRow(st) ==
    LET row == Append(st.current, st.field)
    IN IF SomeFilled(row) THEN Append(st.rows, row) ELSE st.rows

\* The rows of fields parseCsvToRows holds before it reads the header.
CsvRawRows(text) == FlushLastRow(CsvLoop(text, 1, ScanStart))

\* headers.forEach((h, idx) => row[h.trim()] = (values[idx] ?? '').trim()):
\* a mapping from header to value, the later of two equal headers winning.
HeaderRecord(headers, values) ==
    [h \in {Trim(headers[n]) : n \in DOMAIN headers} |->
        LET idx == CHOOSE n \in DOMAIN headers :
                      /\ Trim(headers[n]) = h
                      /\ \A m \in DOMAIN headers : Trim(headers[m]) = h => m <= n
        IN IF idx \in DOMAIN values THEN Trim(values[idx]) ELSE <<>>]

\* parseCsvToRows(text)
ParseCsvToRows(text) ==
    LET rows == CsvRawRows(text)
    IN IF Len(rows) < 2 THEN <<>>
       ELSE [k \in 1..(Len(rows) - 1) |-> HeaderRecord(rows[1], rows[k + 1])]

\* The loop of Allegro parseCsvLine from position i: fields, current, inQuote.
RECURSIVE LineLoop(_, _, _)
LineLoop(line, i, st) ==
    IF i > Len(line) THEN st
    ELSE LET ch == line[i]
         IN LineLoop(line, i + 1,
                IF ch = Apostrophe THEN [st EXCEPT !.inQuote = ~st.inQuote]
                ELSE IF ch = Semicolon /\ ~st.inQuote
                THEN [st EXCEPT !.fields = Append(@, st.current), !.current = <<>>]
                ELSE [st EXCEPT !.current = Append(@, ch)])

LineEnd(line) ==
    LineLoop(line, 1, [fields |-> <<>>, current |-> <<>>, inQuote |-> FALSE])

\* Allegro parseCsvLine(line)
ParseCsvLine(line) == Append(LineEnd(line).fields, LineEnd(line).current)

\* The values an export writes into its cells.
CellPool ==
    {<<>>, <<"a">>, <<Comma>>, <<Quote>>, <<LF>>, <<"a", Comma, Quote>>,
     <<Quote, Quote>>, <<CR, LF>>}

MaxLines == 2

\* An export of two columns, a header line first.
LinesOf(n) == [1..n -> {<<f, g>> : f, g \in CellPool}]

\* The text of an export that puts every value in double quotes, doubles the
\* quotes inside a value, and ends every line with a line feed.
QuotedCell(cell) ==
    <<Quote>> \o Flatten([n \in DOMAIN cell |->
                            IF cell[n] = Quote THEN <<Quote, Quote>> ELSE <<cell[n]>>])
             \o <<Quote>>

QuotedLine(cells) == QuotedCell(cells[1]) \o <<Comma>> \o QuotedCell(cells[2]) \o <<LF>>

ExportText(lines) == Flatten([n \in DOMAIN lines |-> QuotedLine(lines[n])])

\* The characters a typed text is made of.
TextChars == {"a", Comma, Quote, LF, CR, Apostrophe, Semicolon}

\* A file written by an export is read.
ReadExport ==
    /\ ingest.pc = "idle"
    /\ \E n \in 1..MaxLines : \E lines \in LinesOf(n) :
          ingest' = [pc |-> "text", cells |-> lines, text |-> ExportText(lines)]
    /\ UNCHANGED <<purchases, tagAssignments, selected, task, del, conv, panel>>

\* A file of any text is read: it starts empty ...
ReadText ==
    /\ ingest.pc = "idle"
    /\ ingest' = [pc |-> "text", cells |-> <<>>, text |-> <<>>]
    /\ UNCHANGED <<purchases, tagAssignments, selected, task, del, conv, panel>>

\* ... and goes on by one character.
NextChar ==
    /\ ingest.pc = "text"
    /\ ingest.cells = <<>>
    /\ Len(ingest.text) < MaxText
    /\ \E ch \in TextChars :
          ingest' = [ingest EXCEPT !.text = Append(@, ch)]
    /\ UNCHANGED <<purchases, tagAssignments, selected, task, del, conv, panel>>

\* The tokenizers run over the text.
TokenizeStep ==
    /\ ingest.pc = "text"
    /\ ingest' = [pc |-> "tokenized", cells |-> ingest.cells, text |-> ingest.text,
                  rows |-> CsvRawRows(ingest.text),
                  records |-> ParseCsvToRows(ingest.text),
                  fields |-> ParseCsvLine(ingest.text)]
    /\ UNCHANGED <<purchases, tagAssignments, selected, task, del, conv, panel>>

DropText ==
    /\ ingest.pc = "tokenized"
    /\ ingest' = IngestIdle
    /\ UNCHANGED <<purchases, tagAssignments, selected, task, del, conv, panel>>

NextCsv == ReadExport \/ ReadText \/ NextChar \/ TokenizeStep \/ DropText

\* ------------------------------------------------------ money-string parsers
MaxPrice == 5

\* The providers that have a money-string parser of their own.
MoneyParsers == {"amazon", "temu", "aliexpress"}

\* parsePrice(raw) of the provider, as an amount.
MoneyParse(pid, raw) ==
    CASE pid = "amazon" -> AmazonParsePrice(raw)
      [] pid = "temu" -> TemuParsePrice(raw).amount
      [] pid = "aliexpress" -> AliexpressParsePrice(raw)

\* The characters of a cleaned money string.
MoneyChars == {"1", "5", Comma, "."}

\* A money string reaches the parser of a provider: it starts empty ...
ReadPrice ==
    /\ ingest.pc = "idle"
    /\ \E pid \in MoneyParsers :
          ingest' = [pc |-> "price", provider |-> pid, text |-> <<>>]
    /\ UNCHANGED <<purchases, tagAssignments, selected, task, del, conv, panel>>

\* ... and goes on by one character.
PriceChar ==
    /\ ingest.pc = "price"
    /\ Len(ingest.text) < MaxPrice
    /\ \E ch \in MoneyChars : ingest' = [ingest EXCEPT !.text = Append(@, ch)]
    /\ UNCHANGED <<purchases, tagAssignments, selected, task, del, conv, panel>>

\* parsePrice returns.
ParsePriceStep ==
    /\ ingest.pc = "price"
    /\ ingest' = [pc |-> "priced", provider |-> ingest.provider,
                  text |-> ingest.text,
                  amount |-> MoneyParse(ingest.provider, ingest.text)]
    /\ UNCHANGED <<purchases, tagAssignments, selected, task, del, conv, panel>>

DropPrice ==
    /\ ingest.pc = "priced"
    /\ ingest' = IngestIdle
    /\ UNCHANGED <<purchases, tagAssignments, selected, task, del, conv, panel>>

NextPrice == ReadPrice \/ PriceChar \/ ParsePriceStep \/ DropPrice

\* ------------------------------------------------- progress over a long batch
MaxLong == 101

\* The loop of addPurchases over a batch of many candidates, with what the
\* observer is told: the processed value of every report, in order.
LongTask(total, observed, i) ==
    [batch |-> [k \in 1..total |-> "candidate"], observed |-> observed, i |-> i]

\* addPurchases is called with a batch of total candidates.
BeginLongAdd ==
    /\ ingest.pc = "idle"
    /\ \E total \in 1..MaxLong, observed \in BOOLEAN :
          ingest' = [pc |-> "adding", total |-> total, observed |-> observed,
                     i |-> 1, reports |-> <<>>]
    /\ UNCHANGED <<purchases, tagAssignments, selected, task, del, conv, panel>>

\* One candidate is reconciled and the end of its iteration is reached.
LongIterationStep ==
    /\ ingest.pc = "adding"
    /\ ingest.i <= ingest.total
    /\ ingest' = [ingest EXCEPT
          !.reports = IF ReportDue(LongTask(ingest.total, ingest.observed, ingest.i))
                      THEN Append(@, Snapshot(LongTask(ingest.total, ingest.observed,
                                                       ingest.i)
                                              @@ [added |-> 0, skipped |-> 0,
                                                  updated |-> 0, enriched |-> 0]).processed)
                      ELSE @,
          !.i = @ + 1]
    /\ UNCHANGED <<purchases, tagAssignments, selected, task, del, conv, panel>>

\* A storage operation of the candidate rejects and the call with it.
LongRejectStep ==
    /\ ingest.pc = "adding"
    /\ ingest.i <= ingest.total
    /\ ingest' = [ingest EXCEPT !.pc = "rejected"]
    /\ UNCHANGED <<purchases, tagAssignments, selected, task, del, conv, panel>>

\* The loop ends and the call returns.
LongReturnStep ==
    /\ ingest.pc = "adding"
    /\ ingest.i > ingest.total
    /\ ingest' = [ingest EXCEPT !.pc = "returned"]
    /\ UNCHANGED <<purchases, tagAssignments, selected, task, del, conv, panel>>

LongDoneStep ==
    /\ ingest.pc \in {"returned", "rejected"}
    /\ ingest' = IngestIdle
    /\ UNCHANGED <<purchases, tagAssignments, selected, task, del, conv, panel>>

NextProgress ==
    \/ BeginLongAdd \/ LongIterationStep \/ LongRejectStep \/ LongReturnStep
    \/ LongDoneStep

\* ------------------------------------------------- the exchange-rate service

\* How many rate calls are started, and how long a batch of requests is.
MaxRateCalls == 3
MaxRequests == 2

\* The callers that may have a rate call in flight at the same time.
RateCallers == {1, 2}

RateDates == {"2024-01-15"}

\* A rate request { from, to, date }.
RateRequests == [from : Currencies, to : Currencies, date : RateDates]

\* buildRateId: `${from}_${to}_${date}`
BuildRateId(r) == r.from \o "_" \o r.to \o "_" \o r.date

\* getCachedRate: cached?.rate ?? null, null being <<>>.
GetCachedRate(cache, r) ==
    IF \E e \in cache : e.id = BuildRateId(r)
    THEN <<(CHOOSE e \in cache : e.id = BuildRateId(r)).rate>>
    ELSE <<>>

\* A cacheRate that stores nothing.
CacheRateNowhere(cache, r, rate) == cache

\* cacheRate: db.currencyRates.put(entry), keyed by id.
CacheRate(cache, r, rate) ==
    {e \in cache : e.id # BuildRateId(r)}
        \cup {[id |-> BuildRateId(r), rate |-> rate]}

\* The unique requests of a batch, same-currency ones skipped, in the order of
\* their first occurrence.
RECURSIVE UniqueRequests(_, _)
UniqueRequests(requests, seen) ==
    IF requests = <<>> THEN <<>>
    ELSE IF \/ Head(requests).from = Head(requests).to
            \/ BuildRateId(Head(requests)) \in seen
         THEN UniqueRequests(Tail(requests), seen)
         ELSE <<Head(requests)>>
                \o UniqueRequests(Tail(requests),
                                  seen \cup {BuildRateId(Head(requests))})

\* A rate call: its kind, the requests still to serve (the first is the one in
\* hand), what it returns, how often it has read the cache or contacted the
\* remote service, and the ids whose fetch was complete when it began.
RateCallIdle == [pc |-> "idle", kind |-> "", todo |-> <<>>, results |-> {},
                 accesses |-> 0, after |-> {}]

\* The request is served: getExchangeRate returns, batchFetchRates goes on
\* to its next key.
RateServed(call, entries) ==
    LET rest == IF call.kind = "get" THEN <<>> ELSE Tail(call.todo)
    IN [call EXCEPT !.todo = rest,
                    !.results = @ \cup entries,
                    !.pc = IF rest = <<>> THEN "done" ELSE "cache"]

\* The service starts with an empty cache.
OpenRates ==
    /\ ingest.pc = "idle"
    /\ ingest' = [pc |-> "rates", cache |-> {}, settled |-> {},
                  refetched |-> FALSE, started |-> 0,
                  calls |-> [c \in RateCallers |-> RateCallIdle]]
    /\ UNCHANGED <<purchases, tagAssignments, selected, task, del, conv, panel>>

\* getExchangeRate(from, to, date), up to its first await: 1 at once when the
\* currencies are the same.
GetExchangeRate(c, r) ==
    /\ ingest.pc = "rates"
    /\ ingest.calls[c].pc = "idle"
    /\ ingest.started < MaxRateCalls
    /\ ingest' =
         [ingest EXCEPT
            !.started = @ + 1,
            !.calls[c] =
               IF r.from = r.to
               THEN [RateCallIdle EXCEPT !.pc = "done", !.kind = "get",
                        !.todo = <<r>>, !.after = ingest.settled,
                        !.results = {[id |-> BuildRateId(r), rate |-> <<1, 1>>]}]
               ELSE [RateCallIdle EXCEPT !.pc = "cache", !.kind = "get",
                        !.todo = <<r>>, !.after = ingest.settled]]
    /\ UNCHANGED <<purchases, tagAssignments, selected, task, del, conv, panel>>

\* batchFetchRates(requests), up to its first await.
BatchFetchRates(c, requests) ==
    /\ ingest.pc = "rates"
    /\ ingest.calls[c].pc = "idle"
    /\ ingest.started < MaxRateCalls
    /\ ingest' =
         [ingest EXCEPT
            !.started = @ + 1,
            !.calls[c] =
               [RateCallIdle EXCEPT
                  !.kind = "batch",
                  !.after = ingest.settled,
                  !.todo = UniqueRequests(requests, {}),
                  !.pc = IF UniqueRequests(requests, {}) = <<>>
                         THEN "done" ELSE "cache"]]
    /\ UNCHANGED <<purchases, tagAssignments, selected, task, del, conv, panel>>

\* const cached = await getCachedRate(from, to, date)
CachedRateStep(c) ==
    /\ ingest.pc = "rates"
    /\ ingest.calls[c].pc = "cache"
    /\ LET call == [ingest.calls[c] EXCEPT !.accesses = @ + 1]
           r == Head(call.todo)
           cached == GetCachedRate(ingest.cache, r)
       IN ingest' =
            [ingest EXCEPT
               !.calls[c] =
                  IF cached # <<>>
                  THEN RateServed(call, {[id |-> BuildRateId(r),
                                          rate |-> cached[1]]})
                  ELSE [call EXCEPT !.pc = "api"]]
    /\ UNCHANGED <<purchases, tagAssignments, selected, task, del, conv, panel>>

\* const rate = await fetchRateFromApi(from, to, date): the remote service is
\* contacted and answers or fails.  A failure rejects getExchangeRate and is
\* skipped by batchFetchRates.  A contact for an id whose fetch was complete
\* when the call began is recorded.
FetchRateFromApiStep(c) ==
    /\ ingest.pc = "rates"
    /\ ingest.calls[c].pc = "api"
    /\ LET call == [ingest.calls[c] EXCEPT !.accesses = @ + 1]
           r == Head(call.todo)
       IN \E ok \in BOOLEAN :
             ingest' =
               [ingest EXCEPT
                  !.refetched = @ \/ BuildRateId(r) \in call.after,
                  !.calls[c] = IF ok THEN [call EXCEPT !.pc = "put"]
                               ELSE RateServed(call, {})]
    /\ UNCHANGED <<purchases, tagAssignments, selected, task, del, conv, panel>>

\* await cacheRate(from, to, date, rate)
CacheRateStep(c) ==
    /\ ingest.pc = "rates"
    /\ ingest.calls[c].pc = "put"
    /\ LET call == ingest.calls[c]
           r == Head(call.todo)
           rate == ApiRate(r.from, r.to, r.date)
       IN ingest' =
            [ingest EXCEPT
               !.cache = CacheRate(@, r, rate),
               !.settled = @ \cup {BuildRateId(r)},
               !.calls[c] = RateServed(call, {[id |-> BuildRateId(r),
                                               rate |-> rate]})]
    /\ UNCHANGED <<purchases, tagAssignments, selected, task, del, conv, panel>>

\* The caller takes what the call returned.
RateReturnStep(c) ==
    /\ ingest.pc = "rates"
    /\ ingest.calls[c].pc = "done"
    /\ ingest' = [ingest EXCEPT !.calls[c] = RateCallIdle]
    /\ UNCHANGED <<purchases, tagAssignments, selected, task, del, conv, panel>>

RequestBatches ==
    UNION {[1..n -> RateRequests] : n \in 0..MaxRequests}

NextRates ==
    \/ OpenRates
    \/ \E c \in RateCallers, r \in RateRequests : GetExchangeRate(c, r)
    \/ \E c \in RateCallers, b \in RequestBatches : BatchFetchRates(c, b)
    \/ \E c \in RateCallers :
          \/ CachedRateStep(c)
          \/ FetchRateFromApiStep(c)
          \/ CacheRateStep(c)
          \/ RateReturnStep(c)

\* ------------------------------------------------- credentials during a sync

\* The clock of the host, in ticks, and the tokens the provider may issue.
MaxClock == 3
MaxTokens == 2

\* ProviderCredentials: accessToken 0 is a missing token, n > 0 the n-th
\* token issued; tokenExpiresAt is a tick of the clock, or NoExpiry when the
\* field is missing.
NoExpiry == -1

Credentials(accessToken, refreshToken, tokenExpiresAt) ==
    [clientId |-> "client", accessToken |-> accessToken,
     refreshToken |-> refreshToken, tokenExpiresAt |-> tokenExpiresAt]

CredentialPool ==
    {Credentials(a, 1, e) : a \in 0..1, e \in {NoExpiry} \cup 0..MaxClock}

\* allegroProvider.isAuthenticated(credentials), at a tick of the clock.
IsAuthenticated(credentials, now) ==
    IF credentials.accessToken = 0 THEN FALSE
    ELSE IF credentials.tokenExpiresAt # NoExpiry
         THEN credentials.tokenExpiresAt > now
         ELSE TRUE

\* allegroProvider.refreshToken: the tokens of the token endpoint, expiring
\* expires_in ticks from now.
RefreshTokenResult(credentials, now, expiresIn) ==
    [accessToken |-> credentials.accessToken + 1,
     refreshToken |-> credentials.refreshToken + 1,
     tokenExpiresAt |-> now + expiresIn]

\* { ...credentials, ...newTokens }
MergeCredentials(credentials, newTokens) == newTokens @@ credentials

\* The credentials a sync goes on with that ignores the refreshed tokens.
CurrentCredentialsStale(credentials, newTokens) == credentials

\* currentCredentials = { ...credentials, ...newTokens }
CurrentCredentials(credentials, newTokens) ==
    MergeCredentials(credentials, newTokens)

\* updateCredentials(providerId, newTokens): the merged record goes to
\* localStorage and to the store.
UpdateCredentials(stored, newTokens) == MergeCredentials(stored, newTokens)

\* syncProvider(providerId) with the credentials of the invitation, up to
\* await updateSyncState(providerId, { status: 'syncing' }).
AuthSyncCall ==
    /\ ingest.pc = "idle"
    /\ \E credentials \in CredentialPool, pages \in 1..MaxPages, now \in 0..1 :
          ingest' = [pc |-> "check", now |-> now,
                     invitation |-> credentials, storage |-> credentials,
                     credentials |-> credentials, current |-> credentials,
                     expired |-> FALSE, newTokens |-> <<>>,
                     pagesLeft |-> pages, used |-> <<>>, persisted |-> <<>>]
    /\ UNCHANGED <<purchases, tagAssignments, selected, task, del, conv, panel>>

\* Time passes while the sync awaits.
ClockTick ==
    /\ ingest.pc \in {"check", "refresh", "cursor", "fetch", "adding"}
    /\ ingest.now < MaxClock
    /\ ingest' = [ingest EXCEPT !.now = @ + 1]
    /\ UNCHANGED <<purchases, tagAssignments, selected, task, del, conv, panel>>

\* if (provider.isAuthenticated && !provider.isAuthenticated(credentials)):
\* await provider.refreshToken(credentials), or on to the sync cursor.
AuthCheckStep ==
    /\ ingest.pc = "check"
    /\ ingest' = IF IsAuthenticated(ingest.credentials, ingest.now)
                 THEN [ingest EXCEPT !.pc = "cursor"]
                 ELSE [ingest EXCEPT !.pc = "refresh", !.expired = TRUE]
    /\ UNCHANGED <<purchases, tagAssignments, selected, task, del, conv, panel>>

\* refreshToken resolves: updateCredentials stores the new tokens and the
\* sync goes on with the merged credentials, up to
\* await db.syncState.get(providerId).
AuthRefreshStep ==
    /\ ingest.pc = "refresh"
    /\ ingest.credentials.accessToken < MaxTokens
    /\ \E expiresIn \in 0..1 :
          LET newTokens == RefreshTokenResult(ingest.credentials, ingest.now,
                                              expiresIn)
          IN ingest' =
               [ingest EXCEPT
                  !.pc = "cursor",
                  !.newTokens = <<newTokens>>,
                  !.invitation = UpdateCredentials(@, newTokens),
                  !.storage = UpdateCredentials(ingest.invitation, newTokens),
                  !.current = CurrentCredentials(ingest.credentials, newTokens)]
    /\ UNCHANGED <<purchases, tagAssignments, selected, task, del, conv, panel>>

\* refreshToken throws: the catch block; no page is fetched.
AuthRefreshFailStep ==
    /\ ingest.pc = "refresh"
    /\ ingest' = [ingest EXCEPT !.pc = "failed"]
    /\ UNCHANGED <<purchases, tagAssignments, selected, task, del, conv, panel>>

\* const syncState = await db.syncState.get(providerId)
AuthCursorStep ==
    /\ ingest.pc = "cursor"
    /\ ingest' = [ingest EXCEPT !.pc = "fetch"]
    /\ UNCHANGED <<purchases, tagAssignments, selected, task, del, conv, panel>>

\* provider.fetchPurchases(currentCredentials, { cursor, since }) is called:
\* the credentials it is given and what localStorage holds then are kept.
AuthFetchStep ==
    /\ ingest.pc = "fetch"
    /\ ingest' = [ingest EXCEPT !.pc = "adding",
                                !.used = Append(@, ingest.current),
                                !.persisted = Append(@, ingest.storage),
                                !.pagesLeft = @ - 1]
    /\ UNCHANGED <<purchases, tagAssignments, selected, task, del, conv, panel>>

\* fetchPurchases or addPurchases throws: the catch block.
AuthFetchFailStep ==
    /\ ingest.pc = "adding"
    /\ ingest' = [ingest EXCEPT !.pc = "failed"]
    /\ UNCHANGED <<purchases, tagAssignments, selected, task, del, conv, panel>>

\* The page is added; hasMore decides between the next fetch and the end.
AuthAddedStep ==
    /\ ingest.pc = "adding"
    /\ ingest' = [ingest EXCEPT !.pc = IF ingest.pagesLeft > 0 THEN "fetch"
                                       ELSE "synced"]
    /\ UNCHANGED <<purchases, tagAssignments, selected, task, del, conv, panel>>

\* syncProvider returns or rejects.
AuthFinishStep ==
    /\ ingest.pc \in {"synced", "failed"}
    /\ ingest' = IngestIdle
    /\ UNCHANGED <<purchases, tagAssignments, selected, task, del, conv, panel>>

NextAuth ==
    \/ AuthSyncCall \/ ClockTick \/ AuthCheckStep \/ AuthRefreshStep
    \/ AuthRefreshFailStep \/ AuthCursorStep \/ AuthFetchStep
    \/ AuthFetchFailStep \/ AuthAddedStep \/ AuthFinishStep

\* ------------------------------------------------- export and import of data

\* How many keys a table may hold, and how many versions a record has.
MaxKeys == 1
MaxVersions == 2

\* The tables importData writes, in the order it writes them.
DataTables == <<"purchases", "purchaseGroups", "tagGroups", "tagAssignments",
                "currencyRates">>

\* The tables exportData reads, in the order it reads them, and the option
\* each one goes with.
ExportOrder == <<"purchases", "currencyRates", "purchaseGroups", "tagGroups",
                 "tagAssignments">>

ExportOption(table) ==
    CASE table \in {"purchases", "currencyRates"} -> "purchases"
      [] table = "purchaseGroups" -> "groups"
      [] table \in {"tagGroups", "tagAssignments"} -> "tags"

TableNames == {DataTables[n] : n \in DOMAIN DataTables}

\* A table is a set of records with distinct ids.
HasKey(table, id) == \E r \in table : r.id = id

\* table.clear() that leaves the table as it is.
ClearTableKept(table) == table

\* table.clear()
ClearTable(table) == {}

\* table.bulkAdd(records): the records whose key is free are added; a taken
\* key makes the call reject.
BulkAdd(table, records) ==
    [table |-> table \cup {r \in records : ~HasKey(table, r.id)},
     rejected |-> \E r \in records : HasKey(table, r.id)]

\* The merge loop: get(id), and add when nothing is stored under the id.
MergeAdd(table, records) ==
    [table |-> table \cup {r \in records : ~HasKey(table, r.id)},
     added |-> Cardinality({r \in records : ~HasKey(table, r.id)})]

EmptyData == [t \in TableNames |-> {}]

\* The database is opened, empty.
OpenDatabase ==
    /\ ingest.pc = "idle"
    /\ ingest' = [pc |-> "db", tables |-> EmptyData, data |-> EmptyData,
                  options |-> {}, mode |-> "", stage |-> 0,
                  imported |-> [t \in TableNames |-> 0]]
    /\ UNCHANGED <<purchases, tagAssignments, selected, task, del, conv, panel>>

\* The application writes a record, before an export or between an export
\* and the import of its result.
PutRecord ==
    /\ ingest.pc \in {"db", "exported"}
    /\ \E t \in TableNames, id \in 1..MaxKeys, v \in 1..MaxVersions :
          ingest' = [ingest EXCEPT
                       !.tables[t] = {r \in @ : r.id # id}
                                        \cup {[id |-> id, v |-> v]}]
    /\ UNCHANGED <<purchases, tagAssignments, selected, task, del, conv, panel>>

\* ... or deletes one.
DeleteRecord ==
    /\ ingest.pc \in {"db", "exported"}
    /\ \E t \in TableNames, id \in 1..MaxKeys :
          /\ HasKey(ingest.tables[t], id)
          /\ ingest' = [ingest EXCEPT !.tables[t] = {r \in @ : r.id # id}]
    /\ UNCHANGED <<purchases, tagAssignments, selected, task, del, conv, panel>>

\* exportData(options), up to its first read.
ExportCall ==
    /\ ingest.pc = "db"
    /\ \E options \in SUBSET {"purchases", "groups", "tags"} :
          ingest' = [ingest EXCEPT !.pc = "exporting", !.options = options,
                                   !.data = EmptyData, !.stage = 1]
    /\ UNCHANGED <<purchases, tagAssignments, selected, task, del, conv, panel>>

\* data.<table> = await db.<table>.toArray(), for a table whose option is
\* set; after the last table exportData returns.
ExportReadStep ==
    /\ ingest.pc = "exporting"
    /\ LET t == ExportOrder[ingest.stage]
       IN ingest' =
            [ingest EXCEPT
               !.data[t] = IF ExportOption(t) \in ingest.options
                           THEN ingest.tables[t] ELSE @,
               !.stage = IF ingest.stage = Len(ExportOrder) THEN 0 ELSE @ + 1,
               !.pc = IF ingest.stage = Len(ExportOrder) THEN "exported"
                      ELSE "exporting"]
    /\ UNCHANGED <<purchases, tagAssignments, selected, task, del, conv, panel>>

\* importData(data, mode), up to its first await.
ImportDataCall ==
    /\ ingest.pc = "exported"
    /\ \E mode \in {"merge", "overwrite"} :
          ingest' = [ingest EXCEPT
                       !.pc = IF mode = "overwrite" THEN "clearing"
                              ELSE "adding",
                       !.mode = mode, !.stage = 1]
    /\ UNCHANGED <<purchases, tagAssignments, selected, task, del, conv, panel>>

\* await db.<table>.clear(), table after table.
ImportClearStep ==
    /\ ingest.pc = "clearing"
    /\ ingest' =
         [ingest EXCEPT
            !.tables[DataTables[ingest.stage]] = ClearTable(@),
            !.stage = IF ingest.stage = Len(DataTables) THEN 1 ELSE @ + 1,
            !.pc = IF ingest.stage = Len(DataTables) THEN "adding"
                   ELSE "clearing"]
    /\ UNCHANGED <<purchases, tagAssignments, selected, task, del, conv, panel>>

\* if (data.<table>?.length): the merge loop or bulkAdd, table after table;
\* a rejected bulkAdd rejects importData.
ImportAddStep ==
    /\ ingest.pc = "adding"
    /\ LET t == DataTables[ingest.stage]
           bulk == BulkAdd(ingest.tables[t], ingest.data[t])
           merged == MergeAdd(ingest.tables[t], ingest.data[t])
           last == ingest.stage = Len(DataTables)
       IN ingest' =
            IF ingest.data[t] = {} THEN
               [ingest EXCEPT !.stage = IF last THEN 0 ELSE @ + 1,
                              !.pc = IF last THEN "imported" ELSE "adding"]
            ELSE IF ingest.mode = "merge" THEN
               [ingest EXCEPT !.tables[t] = merged.table,
                              !.imported[t] = merged.added,
                              !.stage = IF last THEN 0 ELSE @ + 1,
                              !.pc = IF last THEN "imported" ELSE "adding"]
            ELSE IF bulk.rejected THEN
               [ingest EXCEPT !.tables[t] = bulk.table, !.stage = 0,
                              !.pc = "rejected"]
            ELSE
               [ingest EXCEPT !.tables[t] = bulk.table,
                              !.imported[t] = Cardinality(ingest.data[t]),
                              !.stage = IF last THEN 0 ELSE @ + 1,
                              !.pc = IF last THEN "imported" ELSE "adding"]
    /\ UNCHANGED <<purchases, tagAssignments, selected, task, del, conv, panel>>

\* importData has returned or rejected; the application goes on.
ImportDataDone ==
    /\ ingest.pc \in {"imported", "rejected"}
    /\ ingest' = [ingest EXCEPT !.pc = "db", !.data = EmptyData,
                                !.options = {}, !.mode = "",
                                !.imported = [t \in TableNames |-> 0]]
    /\ UNCHANGED <<purchases, tagAssignments, selected, task, del, conv, panel>>

NextExport ==
    \/ OpenDatabase \/ PutRecord \/ DeleteRecord \/ ExportCall
    \/ ExportReadStep \/ ImportDataCall \/ ImportClearStep \/ ImportAddStep
    \/ ImportDataDone

\* ------------------------------------------------- the provider registry

\* How many queries the callers make.
MaxQueries == 2

\* The meta of a provider object: its id and its type.
ProviderMeta(id, type) == [id |-> id, type |-> type]

\* The provider objects the providers directory defines.
ProviderModules ==
    {ProviderMeta("allegro", "hybrid"), ProviderMeta("amazon", "import"),
     ProviderMeta("olx", "hybrid"), ProviderMeta("ebay", "import"),
     ProviderMeta("vinted", "import"),
     ProviderMeta("allegro-lokalnie", "import"),
     ProviderMeta("aliexpress", "import"), ProviderMeta("temu", "import")}

\* The register(...) calls of the registry module, in order.
Registrations ==
    <<ProviderMeta("allegro", "hybrid"), ProviderMeta("amazon", "import"),
      ProviderMeta("olx", "hybrid"), ProviderMeta("ebay", "import"),
      ProviderMeta("vinted", "import"),
      ProviderMeta("allegro-lokalnie", "import"),
      ProviderMeta("aliexpress", "import")>>

\* register(provider): providers.set(provider.meta.id, provider); a Map keeps
\* the place of a key it already holds.
Register(providers, provider) ==
    IF \E n \in DOMAIN providers : providers[n].id = provider.id
    THEN [n \in DOMAIN providers |->
             IF providers[n].id = provider.id THEN provider ELSE providers[n]]
    ELSE Append(providers, provider)

\* getProvider(id): providers.get(id), undefined being <<>>.
GetProvider(providers, id) ==
    SelectSeq(providers, LAMBDA p : p.id = id)

\* getAllProviders()
GetAllProviders(providers) == providers

\* getApiProviders()
GetApiProviders(providers) ==
    SelectSeq(providers, LAMBDA p : p.type = "api" \/ p.type = "hybrid")

\* getImportProviders()
GetImportProviders(providers) ==
    SelectSeq(providers, LAMBDA p : p.type = "import" \/ p.type = "hybrid")

\* The ids a caller may look up.
LookupIds == {p.id : p \in ProviderModules} \cup {"unknown"}

\* The registry module starts to load: the map is empty.
LoadRegistry ==
    /\ ingest.pc = "idle"
    /\ ingest' = [pc |-> "loading", providers |-> <<>>, next |-> 1,
                  answers |-> <<>>]
    /\ UNCHANGED <<purchases, tagAssignments, selected, task, del, conv, panel>>

\* The next register(...) call of the module.
RegisterStep ==
    /\ ingest.pc = "loading"
    /\ ingest' =
         [ingest EXCEPT
            !.providers = Register(@, Registrations[ingest.next]),
            !.next = @ + 1,
            !.pc = IF ingest.next = Len(Registrations) THEN "ready"
                   ELSE "loading"]
    /\ UNCHANGED <<purchases, tagAssignments, selected, task, del, conv, panel>>

\* A caller looks a provider up by id.
GetProviderQuery ==
    /\ ingest.pc = "ready"
    /\ Len(ingest.answers) < MaxQueries
    /\ \E id \in LookupIds :
          ingest' = [ingest EXCEPT
                       !.answers = Append(@,
                           [query |-> "getProvider", id |-> id,
                            result |-> GetProvider(ingest.providers, id)])]
    /\ UNCHANGED <<purchases, tagAssignments, selected, task, del, conv, panel>>

\* A caller asks for a list of providers.
ListProvidersQuery ==
    /\ ingest.pc = "ready"
    /\ Len(ingest.answers) < MaxQueries
    /\ \E query \in {"getAllProviders", "getApiProviders", "getImportProviders"} :
          ingest' = [ingest EXCEPT
                       !.answers = Append(@,
                           [query |-> query, id |-> "",
                            result |->
                               CASE query = "getAllProviders" ->
                                       GetAllProviders(ingest.providers)
                                 [] query = "getApiProviders" ->
                                       GetApiProviders(ingest.providers)
                                 [] query = "getImportProviders" ->
                                       GetImportProviders(ingest.providers)])]
    /\ UNCHANGED <<purchases, tagAssignments, selected, task, del, conv, panel>>

NextRegistry ==
    LoadRegistry \/ RegisterStep \/ GetProviderQuery \/ ListProvidersQuery

\* ------------------------------------------------- the Allegro OAuth callback

\* How many times the callback page is visited.
MaxCallbacks == 2

\* The values generateState may produce.
OAuthStates == {"s1", "s2"}

\* What the effect of the callback page does with its search parameters, the
\* saved state (None when sessionStorage holds none) and the credentials.
CallbackOutcome(error, code, returnedState, savedState, hasCredentials) ==
    IF error THEN "denied"
    ELSE IF ~code THEN "no code"
    ELSE IF savedState # None /\ returnedState # savedState THEN "invalid state"
    ELSE IF ~hasCredentials THEN "no credentials"
    ELSE "exchange"

\* A browser session begins, with or without an invitation that holds
\* Allegro credentials.
OpenSession ==
    /\ ingest.pc = "idle"
    /\ \E hasCredentials \in BOOLEAN :
          ingest' = [pc |-> "oauth", savedState |-> None,
                     hasCredentials |-> hasCredentials, accessToken |-> 0,
                     status |-> "processing", visits |-> 0,
                     returnedState |-> None, loadedState |-> None]
    /\ UNCHANGED <<purchases, tagAssignments, selected, task, del, conv, panel>>

\* The Connect button: saveState(generateState()) before the redirect.
ConnectClick ==
    /\ ingest.pc = "oauth"
    /\ ingest.hasCredentials
    /\ \E state \in OAuthStates :
          ingest' = [ingest EXCEPT !.savedState = state]
    /\ UNCHANGED <<purchases, tagAssignments, selected, task, del, conv, panel>>

\* The callback page is opened with its search parameters and its effect
\* runs, up to await exchangeAuthorizationCode(...).  The saved state is
\* cleared once an authorization code is present.
CallbackVisit ==
    /\ ingest.pc = "oauth"
    /\ ingest.visits < MaxCallbacks
    /\ \E error \in BOOLEAN, code \in BOOLEAN,
          returnedState \in OAuthStates \cup {None} :
          LET outcome == CallbackOutcome(error, code, returnedState,
                                         ingest.savedState,
                                         ingest.hasCredentials)
          IN ingest' =
               [ingest EXCEPT
                  !.visits = @ + 1,
                  !.returnedState = returnedState,
                  !.loadedState = ingest.savedState,
                  !.savedState = IF outcome \in {"denied", "no code"} THEN @
                                 ELSE None,
                  !.status = IF outcome = "exchange" THEN "processing"
                             ELSE "error",
                  !.pc = IF outcome = "exchange" THEN "exchanging"
                         ELSE "oauth"]
    /\ UNCHANGED <<purchases, tagAssignments, selected, task, del, conv, panel>>

\* The token endpoint answers: updateCredentials stores the new tokens.
ExchangeResolveStep ==
    /\ ingest.pc = "exchanging"
    /\ ingest' = [ingest EXCEPT !.pc = "oauth", !.status = "success",
                                !.accessToken = @ + 1]
    /\ UNCHANGED <<purchases, tagAssignments, selected, task, del, conv, panel>>

\* The token exchange fails: the catch block.
ExchangeFailStep ==
    /\ ingest.pc = "exchanging"
    /\ ingest' = [ingest EXCEPT !.pc = "oauth", !.status = "error"]
    /\ UNCHANGED <<purchases, tagAssignments, selected, task, del, conv, panel>>

NextOAuth ==
    \/ OpenSession \/ ConnectClick \/ CallbackVisit \/ ExchangeResolveStep
    \/ ExchangeFailStep

\* ------------------------------------------- syncProvider, page by page

\* How many items the remote collection of a provider holds at most.
MaxRemote == 3

\* ITEMS_PER_PAGE, the limit of one fetchPurchases call.
PageLimit == 2

\* The providers with a fetchPurchases of their own.
PagedProviders == {"allegro", "olx"}

\* No cursor: syncState?.cursor of a row without one, nextCursor undefined.
NoCursor == -1

\* options?.cursor ? parseInt(options.cursor, 10) : 0
CursorOffset(cursor) == IF cursor = NoCursor THEN 0 ELSE cursor

\* The result of allegroProvider.fetchPurchases for a response of count
\* checkout forms and the reported totalCount.
AllegroFetchResult(offset, count, totalCount) ==
    LET nextOffset == offset + count
        hasMore == nextOffset < totalCount
    IN [count |-> count, hasMore |-> hasMore,
        nextCursor |-> IF hasMore THEN nextOffset ELSE NoCursor]

\* The result of olxProvider.fetchPurchases for a response of count adverts.
OlxFetchResult(offset, count, limit) ==
    LET hasMore == count >= limit
        nextOffset == offset + count
    IN [count |-> count, hasMore |-> hasMore,
        nextCursor |-> IF hasMore THEN nextOffset ELSE NoCursor]

\* The pages a finite remote collection of total items may answer with at
\* an offset: at most limit items, none beyond the end, possibly fewer.
PageCounts(offset, total, limit) ==
    {n \in 0..limit : n = 0 \/ offset + n <= total}

FetchPurchasesResult(pid, cursor, count, total) ==
    IF pid = "allegro"
    THEN AllegroFetchResult(CursorOffset(cursor), count, total)
    ELSE OlxFetchResult(CursorOffset(cursor), count, PageLimit)

\* The application is opened; db.syncState holds no rows.
OpenSyncState ==
    /\ ingest.pc = "idle"
    /\ ingest' = [pc |-> "ready", provider |-> "", syncState |-> <<>>,
                  total |-> 0, cursor |-> NoCursor, hasMore |-> FALSE,
                  result |-> AllegroFetchResult(0, 0, 0), error |-> None,
                  before |-> <<>>, outcome |-> "none"]
    /\ UNCHANGED <<purchases, tagAssignments, selected, task, del, conv, panel>>

\* syncProvider(providerId) up to await updateSyncState(providerId,
\* { status: 'syncing' }); it throws at once when getProvider finds no
\* provider with fetchPurchases or getCredentials finds no credentials.
SyncProviderCall(pid) ==
    /\ ingest.pc = "ready"
    /\ \E hasProvider \in BOOLEAN, hasCredentials \in BOOLEAN,
          total \in 0..MaxRemote :
          ingest' = [ingest EXCEPT
                       !.provider = pid, !.total = total,
                       !.cursor = NoCursor, !.hasMore = FALSE,
                       !.error = None, !.before = ingest.syncState,
                       !.outcome = IF hasProvider /\ hasCredentials
                                   THEN "none" ELSE "rejected early",
                       !.pc = IF hasProvider /\ hasCredentials
                              THEN "marking" ELSE "settled"]
    /\ UNCHANGED <<purchases, tagAssignments, selected, task, del, conv, panel>>

\* updateSyncState(providerId, { status: 'syncing' }) resolves, up to
\* await db.syncState.get(providerId).
SyncMarkedStep ==
    /\ ingest.pc = "marking"
    /\ ingest' = [ingest EXCEPT
                    !.syncState = UpdatedSyncState(@, ingest.provider,
                                                   [status |-> "syncing"]),
                    !.pc = "cursor"]
    /\ UNCHANGED <<purchases, tagAssignments, selected, task, del, conv, panel>>

\* let cursor = syncState?.cursor; let hasMore = true; the first
\* fetchPurchases is issued.
SyncLoopStart ==
    /\ ingest.pc = "cursor"
    /\ ingest' = [ingest EXCEPT
                    !.cursor = LET c == ingest.syncState[ingest.provider].cursor
                               IN IF c = None THEN NoCursor ELSE c,
                    !.hasMore = TRUE,
                    !.pc = "fetch"]
    /\ UNCHANGED <<purchases, tagAssignments, selected, task, del, conv, panel>>

\* await provider.fetchPurchases(currentCredentials, { cursor, since })
\* resolves with a page; addPurchases(result.purchases) is called.
SyncPageStep ==
    /\ ingest.pc = "fetch"
    /\ \E count \in PageCounts(CursorOffset(ingest.cursor), ingest.total,
                               PageLimit) :
          ingest' = [ingest EXCEPT
                       !.result = FetchPurchasesResult(ingest.provider,
                                      ingest.cursor, count, ingest.total),
                       !.pc = "adding"]
    /\ UNCHANGED <<purchases, tagAssignments, selected, task, del, conv, panel>>

\* fetchPurchases or addPurchases throws: the catch block, up to
\* await updateSyncState(providerId, { status: 'error', error: message }).
SyncPageFailStep ==
    /\ ingest.pc \in {"fetch", "adding"}
    /\ ingest' = [ingest EXCEPT !.pc = "failing", !.error = "NetworkError"]
    /\ UNCHANGED <<purchases, tagAssignments, selected, task, del, conv, panel>>

\* await addPurchases resolves: cursor = result.nextCursor;
\* hasMore = result.hasMore; the loop condition is tested.
SyncPageAddedStep ==
    /\ ingest.pc = "adding"
    /\ ingest' = [ingest EXCEPT
                    !.cursor = ingest.result.nextCursor,
                    !.hasMore = ingest.result.hasMore,
                    !.pc = IF ingest.result.hasMore THEN "fetch"
                           ELSE "finishing"]
    /\ UNCHANGED <<purchases, tagAssignments, selected, task, del, conv, panel>>

\* updateSyncState(providerId, { status: 'idle', lastSyncAt, cursor:
\* undefined, error: undefined }); syncProvider returns totalAdded.
SyncDoneStep ==
    /\ ingest.pc = "finishing"
    /\ ingest' = [ingest EXCEPT
                    !.syncState = UpdatedSyncState(@, ingest.provider,
                                     [status |-> "idle", lastSyncAt |-> "now",
                                      cursor |-> None, error |-> None]),
                    !.outcome = "resolved",
                    !.pc = "settled"]
    /\ UNCHANGED <<purchases, tagAssignments, selected, task, del, conv, panel>>

\* updateSyncState(providerId, { status: 'error', error: message }); the
\* error is rethrown.
SyncErrorStep ==
    /\ ingest.pc = "failing"
    /\ ingest' = [ingest EXCEPT
                    !.syncState = UpdatedSyncState(@, ingest.provider,
                                     FailureUpdates(ingest.error)),
                    !.outcome = "rejected",
                    !.pc = "settled"]
    /\ UNCHANGED <<purchases, tagAssignments, selected, task, del, conv, panel>>

\* The caller has seen the settled promise; another call may follow.
SyncSettledStep ==
    /\ ingest.pc = "settled"
    /\ ingest' = [ingest EXCEPT !.pc = "ready", !.outcome = "none"]
    /\ UNCHANGED <<purchases, tagAssignments, selected, task, del, conv, panel>>

NextPages ==
    \/ OpenSyncState
    \/ \E pid \in PagedProviders : SyncProviderCall(pid)
    \/ SyncMarkedStep
    \/ SyncLoopStart
    \/ SyncPageStep
    \/ SyncPageFailStep
    \/ SyncPageAddedStep
    \/ SyncDoneStep
    \/ SyncErrorStep
    \/ SyncSettledStep

\* ------------------------------------------ the device-authorization modal

\* How many times startFlow runs.
MaxFlows == 2

Flows == 1..MaxFlows

\* What pollDeviceToken may answer; "network" is a rejected request.
PollResults == {"ok", "authorization_pending", "slow_down", "access_denied",
                "expired_token", "network"}

\* cleanup(): clearInterval on the timer pollingRef holds and on the countdown
\* countdownRef holds, both refs to null, abortRef.current = true.  Every
\* flow started so far has been cleaned up from here on.
Cleanup(d) ==
    [d EXCEPT
       !.phase = [f \in Flows |->
                    IF f = d.pollingRef /\ d.phase[f] = "armed"
                    THEN "dead" ELSE d.phase[f]],
       !.countdown = [f \in Flows |->
                        d.countdown[f] /\ f # d.countdownRef],
       !.pollingRef = 0,
       !.countdownRef = 0,
       !.abort = TRUE,
       !.cleaned = 1..d.started]

\* startFlow() up to await requestDeviceCode(credentials).
StartFlow(d) ==
    [d EXCEPT !.status = "requesting", !.abort = FALSE,
              !.started = @ + 1,
              !.phase[d.started + 1] = "requesting"]

\* A flow whose timer is pending or whose poll request is in flight.
LiveChains(d) == {f \in Flows : d.phase[f] \in {"armed", "polling"}}

\* The modal is opened for the first time: the effect calls startFlow.
OpenDeviceModal ==
    /\ ingest.pc = "idle"
    /\ ingest' = StartFlow([pc |-> "device", isOpen |-> TRUE, status |-> "idle",
                            abort |-> FALSE, pollingRef |-> 0,
                            countdownRef |-> 0, started |-> 0,
                            phase |-> [f \in Flows |-> "none"],
                            countdown |-> [f \in Flows |-> FALSE],
                            cleaned |-> {}, token |-> 0])
    /\ UNCHANGED <<purchases, tagAssignments, selected, task, del, conv, panel>>

\* handleClose(): cleanup(), setStatus('idle'), onClose().
HandleClose ==
    /\ ingest.pc = "device"
    /\ ingest.isOpen
    /\ ingest' = [Cleanup(ingest) EXCEPT !.status = "idle", !.isOpen = FALSE]
    /\ UNCHANGED <<purchases, tagAssignments, selected, task, del, conv, panel>>

\* The modal is opened again: the effect calls startFlow.
ReopenDeviceModal ==
    /\ ingest.pc = "device"
    /\ ~ingest.isOpen
    /\ ingest.started < MaxFlows
    /\ ingest' = [StartFlow(ingest) EXCEPT !.isOpen = TRUE]
    /\ UNCHANGED <<purchases, tagAssignments, selected, task, del, conv, panel>>

\* The Try again button of the denied, expired and error views.
TryAgain ==
    /\ ingest.pc = "device"
    /\ ingest.isOpen
    /\ ingest.status \in {"denied", "expired", "error"}
    /\ ingest.started < MaxFlows
    /\ ingest' = StartFlow(ingest)
    /\ UNCHANGED <<purchases, tagAssignments, selected, task, del, conv, panel>>

\* await requestDeviceCode(credentials) resolves in flow f: the countdown
\* and the first poll are scheduled unless abortRef.current is set.
DeviceCodeStep(f) ==
    /\ ingest.pc = "device"
    /\ ingest.phase[f] = "requesting"
    /\ ingest' = IF ingest.abort
                 THEN [ingest EXCEPT !.phase[f] = "dead"]
                 ELSE [ingest EXCEPT !.status = "waiting",
                                     !.countdownRef = f,
                                     !.countdown[f] = TRUE,
                                     !.pollingRef = f,
                                     !.phase[f] = "armed"]
    /\ UNCHANGED <<purchases, tagAssignments, selected, task, del, conv, panel>>

\* requestDeviceCode rejects in flow f.
DeviceCodeFailStep(f) ==
    /\ ingest.pc = "device"
    /\ ingest.phase[f] = "requesting"
    /\ ingest' = IF ingest.abort
                 THEN [ingest EXCEPT !.phase[f] = "dead"]
                 ELSE [ingest EXCEPT !.status = "error", !.phase[f] = "dead"]
    /\ UNCHANGED <<purchases, tagAssignments, selected, task, del, conv, panel>>

\* The countdown of flow f reaches zero: cleanup(), setStatus('expired').
CountdownExpireStep(f) ==
    /\ ingest.pc = "device"
    /\ ingest.countdown[f]
    /\ ingest' = [Cleanup(ingest) EXCEPT !.status = "expired"]
    /\ UNCHANGED <<purchases, tagAssignments, selected, task, del, conv, panel>>

\* The timer of flow f fires: poll() up to await pollDeviceToken(...).
PollFireStep(f) ==
    /\ ingest.pc = "device"
    /\ ingest.phase[f] = "armed"
    /\ ingest' = [ingest EXCEPT
                    !.phase[f] = IF ingest.abort THEN "dead" ELSE "polling"]
    /\ UNCHANGED <<purchases, tagAssignments, selected, task, del, conv, panel>>

\* What poll() of flow f does once pollDeviceToken has settled with result.
PollSettled(d, f, result) ==
    IF d.abort THEN [d EXCEPT !.phase[f] = "dead"]
    ELSE IF result = "ok"
    THEN [Cleanup(d) EXCEPT !.token = f, !.status = "success",
                            !.phase[f] = "dead"]
    ELSE IF result = "access_denied"
    THEN [Cleanup(d) EXCEPT !.status = "denied", !.phase[f] = "dead"]
    ELSE IF result = "expired_token"
    THEN [Cleanup(d) EXCEPT !.status = "expired", !.phase[f] = "dead"]
    ELSE [d EXCEPT !.pollingRef = f, !.phase[f] = "armed"]

\* await pollDeviceToken(credentials, data.device_code) settles in flow f.
PollResponseStep(f) ==
    /\ ingest.pc = "device"
    /\ ingest.phase[f] = "polling"
    /\ \E result \in PollResults : ingest' = PollSettled(ingest, f, result)
    /\ UNCHANGED <<purchases, tagAssignments, selected, task, del, conv, panel>>

NextDevice ==
    \/ OpenDeviceModal
    \/ HandleClose
    \/ ReopenDeviceModal
    \/ TryAgain
    \/ \E f \in Flows : DeviceCodeStep(f)
    \/ \E f \in Flows : DeviceCodeFailStep(f)
    \/ \E f \in Flows : CountdownExpireStep(f)
    \/ \E f \in Flows : PollFireStep(f)
    \/ \E f \in Flows : PollResponseStep(f)

\* ---------------------------------------------- assignTag calls in flight

\* How many assignTag calls are issued.
MaxTagCalls == 3

\* The assignTag calls that may be in flight together.
TagCallers == {1, 2}

TagTargets == {"p1", "p2"}

\* The ids generateId hands out, in order.
TagIdSeq == <<"a1", "a2", "a3", "a4">>

TagCallIdle == [pc |-> "idle", targetId |-> "", tagGroupId |-> "",
                values |-> <<>>, existing |-> None]

\* db.tagAssignments.where('[targetId+tagGroupId]').equals([...]).first():
\* the id of the first stored assignment of the pair, None without one.
FirstAssignment(tags, targetId, tagGroupId) ==
    LET found == {n \in DOMAIN TagIdSeq :
                    \E a \in tags : /\ a.id = TagIdSeq[n]
                                    /\ a.targetId = targetId
                                    /\ a.tagGroupId = tagGroupId}
    IN IF found = {} THEN None
       ELSE TagIdSeq[CHOOSE n \in found : \A m \in found : n <= m]

\* The write of assignTag after its lookup: delete(existing.id) or
\* update(existing.id, { selectedValues }) on a found assignment, add under
\* a fresh id when none was found and a value is selected.
AssignTagWrite(tags, call, fresh) ==
    IF call.existing # None
    THEN IF call.values = <<>>
         THEN {a \in tags : a.id # call.existing}
         ELSE {IF a.id = call.existing
               THEN [a EXCEPT !.selectedValues = call.values] ELSE a : a \in tags}
    ELSE IF call.values # <<>>
         THEN tags \cup {[id |-> fresh, targetId |-> call.targetId,
                          tagGroupId |-> call.tagGroupId,
                          selectedValues |-> call.values]}
         ELSE tags

\* The tag store is in use; db.tagAssignments is empty.
OpenTagStore ==
    /\ ingest.pc = "idle"
    /\ ingest' = [pc |-> "tags", tags |-> {}, issued |-> 0, ids |-> 0,
                  calls |-> [c \in TagCallers |-> TagCallIdle]]
    /\ UNCHANGED <<purchases, tagAssignments, selected, task, del, conv, panel>>

\* assignTag(targetId, targetType, tagGroupId, selectedValues) up to the
\* await of its lookup.
AssignTagCall(c, targetId, tagGroupId, values) ==
    /\ ingest.pc = "tags"
    /\ ingest.calls[c].pc = "idle"
    /\ ingest.issued < MaxTagCalls
    /\ ingest' = [ingest EXCEPT
                    !.issued = @ + 1,
                    !.calls[c] = [pc |-> "lookup", targetId |-> targetId,
                                  tagGroupId |-> tagGroupId, values |-> values,
                                  existing |-> None]]
    /\ UNCHANGED <<purchases, tagAssignments, selected, task, del, conv, panel>>

\* The lookup resolves, up to the await of the write.
AssignTagLookupStep(c) ==
    /\ ingest.pc = "tags"
    /\ ingest.calls[c].pc = "lookup"
    /\ ingest' = [ingest EXCEPT
                    !.calls[c].existing =
                        FirstAssignment(ingest.tags, ingest.calls[c].targetId,
                                        ingest.calls[c].tagGroupId),
                    !.calls[c].pc = "write"]
    /\ UNCHANGED <<purchases, tagAssignments, selected, task, del, conv, panel>>

\* The write resolves and assignTag returns.
AssignTagWriteStep(c) ==
    /\ ingest.pc = "tags"
    /\ ingest.calls[c].pc = "write"
    /\ LET call == ingest.calls[c]
           adds == call.existing = None /\ call.values # <<>>
       IN ingest' = [ingest EXCEPT
                       !.tags = AssignTagWrite(@, call, TagIdSeq[ingest.ids + 1]),
                       !.ids = IF adds THEN @ + 1 ELSE @,
                       !.calls[c] = TagCallIdle]
    /\ UNCHANGED <<purchases, tagAssignments, selected, task, del, conv, panel>>

\* removeTagAssignment(targetId, tagGroupId): one delete over the index.
RemoveTagAssignmentCall(targetId, tagGroupId) ==
    /\ ingest.pc = "tags"
    /\ ingest.tags # {}
    /\ ingest' = [ingest EXCEPT
                    !.tags = {a \in @ : ~(a.targetId = targetId
                                          /\ a.tagGroupId = tagGroupId)}]
    /\ UNCHANGED <<purchases, tagAssignments, selected, task, del, conv, panel>>

NextTags ==
    \/ OpenTagStore
    \/ \E c \in TagCallers, targetId \in TagTargets, tagGroupId \in TagGroupIds,
          values \in TagValues : AssignTagCall(c, targetId, tagGroupId, values)
    \/ \E c \in TagCallers : AssignTagLookupStep(c)
    \/ \E c \in TagCallers : AssignTagWriteStep(c)
    \/ \E targetId \in TagTargets, tagGroupId \in TagGroupIds :
          RemoveTagAssignmentCall(targetId, tagGroupId)

\* ------------------------------------------- import of another device's file

\* How many primary keys the purchases of the two devices use.
MaxMergeIds == 2

\* The dedup keys (providerId, providerItemId) of those purchases.
MergeKeys == {"k1", "k2"}

KeyedPurchases == [id : 1..MaxMergeIds, v : 1..MaxVersions, key : MergeKeys]

\* A purchases table as addPurchases leaves it: one record per primary key
\* and one per dedup key.
Deduplicated(table) ==
    \A a, b \in table : (a.id = b.id \/ a.key = b.key) => a = b

\* addPurchases stores a purchase whose dedup key is new.
StorePurchase ==
    /\ ingest.pc = "db"
    /\ \E r \in KeyedPurchases :
          /\ Deduplicated(ingest.tables["purchases"] \cup {r})
          /\ r \notin ingest.tables["purchases"]
          /\ ingest' = [ingest EXCEPT !.tables["purchases"] = @ \cup {r}]
    /\ UNCHANGED <<purchases, tagAssignments, selected, task, del, conv, panel>>

\* The user picks a file another installation exported: its purchases are
\* deduplicated among themselves.
ChooseImportFile ==
    /\ ingest.pc = "db"
    /\ \E file \in SUBSET KeyedPurchases :
          /\ file # {}
          /\ Deduplicated(file)
          /\ ingest' = [ingest EXCEPT !.pc = "exported",
                                      !.data["purchases"] = file]
    /\ UNCHANGED <<purchases, tagAssignments, selected, task, del, conv, panel>>

NextMerge ==
    \/ OpenDatabase \/ StorePurchase \/ ChooseImportFile \/ ImportDataCall
    \/ ImportClearStep \/ ImportAddStep \/ ImportDataDone

\* ------------------------------------------------------------ initial state

Init ==
    /\ purchases = <<>>
    /\ tagAssignments = {}
    /\ selected = <<>>
    /\ task = [t \in TaskIds |-> IdleTask]
    /\ del = DelIdle
    /\ conv = ConvIdle
    /\ ui = UiInit
    /\ imp = ImpIdle
    /\ sync = SyncIdle
    /\ syncState = <<>>
    /\ ingest = IngestIdle

\* ----------------------------------------------------------- specifications

Spec == Init /\ [][Next]_vars
SpecFields == Init /\ [][NextFields]_vars
SpecDelete == Init /\ [][NextDelete]_vars
SpecConvert == Init /\ [][NextConvert]_vars
SpecCallers == Init /\ [][NextCallers]_vars
SpecSync == Init /\ [][NextSync]_vars
SpecIngest == Init /\ [][NextIngest]_vars
SpecCsv == Init /\ [][NextCsv]_vars
SpecPrice == Init /\ [][NextPrice]_vars
SpecProgress == Init /\ [][NextProgress]_vars
SpecRates == Init /\ [][NextRates]_vars
SpecAuth == Init /\ [][NextAuth]_vars
SpecExport == Init /\ [][NextExport]_vars
SpecRebuild == Init /\ [][NextRebuild]_vars
SpecRegistry == Init /\ [][NextRegistry]_vars
SpecOAuth == Init /\ [][NextOAuth]_vars
\* The event loop runs every continuation that is ready.
SpecDevice == Init /\ [][NextDevice]_vars
SpecTags == Init /\ [][NextTags]_vars
SpecMerge == Init /\ [][NextMerge]_vars
SpecPages == Init /\ [][NextPages]_vars /\ WF_vars(NextPages)

\* ------------------------------------------------------------------ claims

SameDedupKey(a, b) ==
    a.providerId = b.providerId /\ a.providerItemId = b.providerItemId

\* C1: after any sequence of sequentially executed addPurchases batches,
\* starting from the empty store, no two stored purchases have the same
\* (providerId, providerItemId).
C1_NoDuplicateDedupKey ==
    \A a, b \in DOMAIN purchases :
        a # b => ~SameDedupKey(purchases[a], purchases[b])

\* A batch has returned whose two candidates share a dedup key under different
\* ids, and the store holds that key.
C1_Witness ==
    LET tk == task["direct"]
    IN /\ tk.pc = "returned"
       /\ Len(tk.batch) = 2
       /\ SameDedupKey(tk.batch[1], tk.batch[2])
       /\ tk.batch[1].id # tk.batch[2].id
       /\ tk.added = 1
       /\ \E a \in DOMAIN purchases : SameDedupKey(purchases[a], tk.batch[2])

\* C6: addPurchases never rejects because of an individual candidate: it
\* rejects only when the underlying store has failed.
C6_RejectsOnlyOnStorageFailure ==
    \A t \in TaskIds : task[t].pc = "rejected" => task[t].error = "StorageError"

\* The awaited operation of candidate i failed in this step.
FailedStep(t) ==
    /\ Awaiting(task[t])
    /\ ~Awaiting(task'[t])
    /\ task'[t].i = task[t].i

\* The record each processed candidate left is the stored record, unless a
\* later processed candidate wrote the same record.
TrailStored(tk) ==
    \A n \in 1..Len(tk.trail) :
        /\ tk.trail[n] # <<>>
        /\ (\A m \in (n + 1)..Len(tk.trail) : tk.trail[m][1].id # tk.trail[n][1].id)
              => /\ tk.trail[n][1].id \in DOMAIN purchases
                 /\ purchases[tk.trail[n][1].id] = tk.trail[n][1]

\* C10: when a storage operation throws during addPurchases the call rejects
\* with no result, the failing step writes nothing, and every record written
\* by the earlier steps of the batch is stored as it was written.
C10_FailurePropagatesAndKeepsWrites ==
    /\ [][\A t \in TaskIds : FailedStep(t) =>
            /\ task'[t].pc = "rejected"
            /\ task'[t].result = <<>>
            /\ task'[t].error # ""
            /\ purchases' = purchases]_vars
    /\ [](\A t \in TaskIds : task[t].pc = "rejected" => TrailStored(task[t]))

\* A call was rejected by a storage failure after it had inserted a record.
C10_Witness ==
    LET tk == task["direct"]
    IN /\ tk.pc = "rejected"
       /\ tk.error = "StorageError"
       /\ tk.added = 1
       /\ tk.result = <<>>
       /\ tk.batch[1].id \in DOMAIN purchases

\* ---------------------------------------------------------- claims C2 - C5

Identity(p) == [f \in IdentityFields |-> p[f]]

\* The second run of a batch has added nothing, updated nothing, and left the
\* number of records and their compared fields as the first run left them.
SecondRunQuiet(tk) ==
    /\ tk.added = 0
    /\ tk.updated = 0
    /\ DOMAIN purchases = DOMAIN tk.startStore
    /\ \A id \in DOMAIN purchases :
          Identity(purchases[id]) = Identity(tk.startStore[id])

\* Candidates of the batch with one dedup key agree on the compared fields.
AgreeingBatch(batch) ==
    \A m, n \in DOMAIN batch :
        SameDedupKey(batch[m], batch[n]) => Identity(batch[m]) = Identity(batch[n])

\* C2 as stated: a second run of the same batch reports added = 0 and
\* updated = 0 and leaves the record count and the compared fields unchanged.
C2_SecondRunQuiet ==
    LET tk == task["direct"]
    IN tk.repeat /\ tk.pc = "returned" => SecondRunQuiet(tk)

\* C2, amended: the same, for a batch whose candidates with equal
\* (providerId, providerItemId) agree on title, price, currency and
\* purchaseDate; it holds at every point of the second run.
C2_SecondRunQuietWhenAgreeing ==
    LET tk == task["direct"]
    IN tk.repeat /\ AgreeingBatch(tk.batch) =>
          /\ SecondRunQuiet(tk)
          /\ tk.enriched = 0
          /\ tk.pc = "returned" => tk.result[1].skipped = Len(tk.batch)

\* The second run of a two-candidate batch has returned, the first run having
\* stored its record.
C2_Witness ==
    LET tk == task["direct"]
    IN /\ tk.repeat
       /\ tk.pc = "returned"
       /\ Len(tk.batch) = 2
       /\ AgreeingBatch(tk.batch)
       /\ tk.batch[1].imageUrl # tk.batch[2].imageUrl
       /\ tk.skipped = 2
       /\ DOMAIN purchases # {}

\* m and n are processed candidates with one dedup key, m the nearest before n.
Consecutive(tk, m, n) ==
    /\ m < n
    /\ n <= Len(tk.trail)
    /\ SameDedupKey(tk.batch[m], tk.batch[n])
    /\ \A k \in (m + 1)..(n - 1) : ~SameDedupKey(tk.batch[k], tk.batch[n])

LastOfKey(tk, n) ==
    \A k \in (n + 1)..Len(tk.trail) : ~SameDedupKey(tk.batch[k], tk.batch[n])

ExactlyOneStored(p) ==
    Cardinality({id \in DOMAIN purchases : SameDedupKey(purchases[id], p)}) = 1

\* r is e with nothing changed but optional fields e lacked, taken from p.
OnlyMissingFilled(r, e, p) ==
    \A f \in DOMAIN e :
        \/ r[f] = e[f]
        \/ f \in OptionalFields /\ Falsy(e[f]) /\ r[f] = p[f]

\* C3 as stated: of two candidates with one dedup key the later one wins the
\* compared fields when they differ, and when they are identical the earlier
\* candidate's record is untouched; one stored record has the key.
C3_LaterWinsOrUntouched ==
    LET tk == task["direct"]
    IN \A m, n \in DOMAIN tk.batch :
          Consecutive(tk, m, n) =>
             /\ ExactlyOneStored(tk.batch[n])
             /\ tk.trail[n] # <<>>
             /\ IF SameIdentity(tk.batch[m], tk.batch[n])
                THEN tk.trail[n] = tk.trail[m]
                ELSE Identity(tk.trail[n][1]) = Identity(tk.batch[n])

\* C3, amended: when the compared fields are identical the record keeps what
\* the earlier candidate left, except that optional fields it lacked are filled
\* from the later candidate.
C3_LaterWinsOrEnriched ==
    LET tk == task["direct"]
    IN \A m, n \in DOMAIN tk.batch :
          Consecutive(tk, m, n) =>
             /\ ExactlyOneStored(tk.batch[n])
             /\ tk.trail[n] # <<>> /\ tk.trail[m] # <<>>
             /\ Identity(tk.trail[n][1]) = Identity(tk.batch[n])
             /\ SameIdentity(tk.batch[m], tk.batch[n])
                   => OnlyMissingFilled(tk.trail[n][1], tk.trail[m][1], tk.batch[n])
             /\ LastOfKey(tk, n) => purchases[tk.trail[n][1].id] = tk.trail[n][1]

\* A batch has returned whose second candidate changed the price of the key
\* its first candidate inserted.
C3_Witness ==
    LET tk == task["direct"]
    IN /\ tk.pc = "returned"
       /\ Len(tk.batch) = 2
       /\ tk.added = 1 /\ tk.updated = 1
       /\ tk.batch[1].price # tk.batch[2].price
       /\ purchases["p1"].price = tk.batch[2].price

\* The optional fields a stored record lacks and a candidate supplies.
Missing(pre, p) == {f \in OptionalFields : Falsy(pre[f]) /\ ~Falsy(p[f])}

OthersUnchanged(id) ==
    /\ DOMAIN purchases' = DOMAIN purchases
    /\ \A o \in DOMAIN purchases : o # id => purchases'[o] = purchases[o]

\* C4: a candidate that matches a stored record with identical title, price,
\* currency and purchaseDate is counted enriched or skipped; the step writes
\* only the optional fields the record lacks and the candidate supplies, and
\* counts enriched exactly when there is one.
C4_EnrichWritesOnlyMissing ==
    [][\A t \in TaskIds :
        LET tk == task[t]
            id == ExistingId(tk)
        IN /\ (tk.pc = "get" /\ id \in DOMAIN purchases
                 /\ SameIdentity(purchases[id], Candidate(tk)))
              => \/ task'[t].pc = "enrich"
                 \/ task'[t].skipped = tk.skipped + 1
           /\ (tk.pc \in {"get", "enrich"}
                 /\ task'[t].skipped + task'[t].enriched
                      = tk.skipped + tk.enriched + 1)
              => /\ OthersUnchanged(id)
                 /\ \A f \in DOMAIN purchases[id] :
                       purchases'[id][f] =
                          IF f \in Missing(purchases[id], Candidate(tk))
                          THEN Candidate(tk)[f] ELSE purchases[id][f]
                 /\ (task'[t].enriched = tk.enriched + 1)
                       <=> Missing(purchases[id], Candidate(tk)) # {}]_vars

\* A record that had only an image was enriched by a candidate with another
\* image: the image is kept and the other optional fields are filled.
C4_Witness ==
    LET tk == task["direct"]
    IN /\ tk.enriched = 1
       /\ "p1" \in DOMAIN purchases
       /\ purchases["p1"].imageUrl = "img2"
       /\ purchases["p1"].categoryName = "cat1"
       /\ purchases["p1"].rawData = "raw1"

\* C5: a candidate that matches a stored record and differs from it in title,
\* price, currency or purchaseDate is counted updated, and the step leaves the
\* record, under the same id, with the candidate's title, price, currency,
\* purchaseDate, categoryName, imageUrl, originalUrl and rawData.
C5_UpdateOverwrites ==
    [][\A t \in TaskIds :
        LET tk == task[t]
            id == ExistingId(tk)
        IN /\ (tk.pc = "get" /\ id \in DOMAIN purchases
                 /\ ~SameIdentity(purchases[id], Candidate(tk)))
              => task'[t].pc = "update"
           /\ (tk.pc = "update" /\ id \in DOMAIN purchases
                 /\ task'[t].pc # "rejected")
              => /\ task'[t].updated = tk.updated + 1
                 /\ OthersUnchanged(id)
                 /\ \A f \in DOMAIN purchases[id] :
                       purchases'[id][f] =
                          IF f \in IdentityFields \cup OptionalFields
                          THEN Candidate(tk)[f] ELSE purchases[id][f]]_vars

\* A record with a category was updated by a candidate with a new title and
\* no category.
C5_Witness ==
    LET tk == task["direct"]
    IN /\ tk.updated = 1
       /\ tk.startStore # <<>>
       /\ tk.startStore["p1"].categoryName = "cat1"
       /\ tk.startStore["p1"].title = "Lamp"
       /\ purchases["p1"].title = "Lamp v2"
       /\ purchases["p1"].categoryName = None

\* ------------------------------------------------------------------ claim C7

\* C7: when deletePurchase, deleteSelectedPurchases, clearProviderPurchases or
\* clearAllPurchases completes, no tag assignment is left whose targetId is the
\* id of a purchase the operation deleted.
C7_DeletionCascadesToTags ==
    [][(del.pc # "done" /\ del'.pc = "done")
          => \A a \in tagAssignments' : a.targetId \notin del'.removed]_vars

\* ------------------------------------------------------------------ claim C8

\* C8: no stored purchase carries a converted price that was computed from a
\* price or currency other than the ones the record now stores.
C8_ConvertedPriceMatchesRecord ==
    \A id \in DOMAIN purchases :
        purchases[id].convertedFrom # <<>>
           => purchases[id].convertedFrom
                 = <<purchases[id].price, purchases[id].currency>>

\* ------------------------------------------------------------------ claim C9

\* C9: under every interleaving of file import and provider sync, at most one
\* addPurchases batch is between building its index and finishing its loop.
C9_OneBatchAtATime ==
    Cardinality({t \in TaskIds : Awaiting(task[t])}) <= 1

\* ----------------------------------------------------------------- claim C11

\* The sync is in its catch block, or has just left it.
SyncFailing == sync.pc = "failing"

\* C11: when fetching a page or refreshing the token fails during
\* syncProvider, the sync state ends with status 'error' and the message, the
\* caller receives the error, no step of the failure path writes a purchase,
\* and every purchase merged from the earlier pages is stored as merged.
C11_SyncFailureMarksErrorAndKeepsPurchases ==
    /\ [][(sync.pc \in {"fetch", "refresh"} /\ sync'.pc = "failing")
             => purchases' = purchases]_vars
    /\ [][(SyncFailing /\ sync'.pc = "idle") =>
            /\ sync.provider \in DOMAIN syncState'
            /\ syncState'[sync.provider].status = "error"
            /\ syncState'[sync.provider].error = sync.error
            /\ ui'.errors[sync.provider] = sync.error
            /\ sync.provider \notin ui'.syncingIds
            /\ purchases' = purchases
            /\ TrailStored([trail |-> sync.merged])']_vars

\* The second page of a sync could not be fetched after the first page had
\* added a record, and the sync state says so.
C11_Witness ==
    /\ sync.pc = "idle"
    /\ sync.runs = 1
    /\ "allegro" \in DOMAIN syncState
    /\ syncState["allegro"].status = "error"
    /\ syncState["allegro"].error = "NetworkError"
    /\ ui.errors["allegro"] = "NetworkError"
    /\ DOMAIN purchases # {}

\* ---------------------------------------------------------------- claim C12
\* The states in which parseImportFile has settled.
Parsed == ingest.pc = "parsed"

\* A row index standing in for an identifier the record did not have.
IndexPlaceholders == {ToString(k) : k \in 0..(MaxRows + 1)}

\* The source records of the file that carry a non-empty title.
TitledRows == SelectSeq(ingest.rows, LAMBDA r : ~Blank(r.title))

\* C12: no parseImportFile of any provider emits a record whose title or
\* providerItemId is empty or a placeholder ('Unknown Item', a row index in
\* place of a missing identifier), and a source record without a non-empty
\* title is dropped, so no more records come out than titled ones went in.
C12_NoPlaceholderRecords ==
    Parsed =>
        /\ \A n \in DOMAIN ingest.out :
              /\ ~Blank(ingest.out[n].title)
              /\ ingest.out[n].title # "Unknown Item"
              /\ ~Blank(ingest.out[n].providerItemId)
              /\ ingest.out[n].providerItemId \notin IndexPlaceholders
        /\ Len(ingest.out) <= Len(TitledRows)

\* ---------------------------------------------------------------- claim C13
\* The source records of the file whose status is that of a completed purchase.
CompletedRows == SelectSeq(ingest.rows, LAMBDA r : r.status = "Completed")

TitlesOf(rs) == {rs[n].title : n \in DOMAIN rs}

\* C13: in every format AliExpress reads, parseImportFile maps only the
\* items whose status is 'Completed': every title that comes out is the title
\* of a completed item, and no more records come out than completed items
\* went in.
C13_OnlyCompletedItemsMapped ==
    (Parsed /\ ingest.provider = "aliexpress") =>
        /\ TitlesOf(ingest.out) \subseteq TitlesOf(CompletedRows)
        /\ Len(ingest.out) <= Len(CompletedRows)

\* ---------------------------------------------------------------- claim C14
\* The source records of the file whose Order Status is not 'Cancelled'.
NonCancelledRows == SelectSeq(ingest.rows, LAMBDA r : r.status # "Cancelled")

\* C14: Amazon mapRowToPurchase returns null for every row whose Order Status
\* is 'Cancelled': the purchases of an Amazon file carry titles of
\* non-cancelled rows only, at most one per such row.
C14_AmazonDropsCancelledRows ==
    (Parsed /\ ingest.provider = "amazon") =>
        /\ TitlesOf(ingest.out) \subseteq TitlesOf(NonCancelledRows)
        /\ Len(ingest.out) <= Len(NonCancelledRows)

\* ---------------------------------------------------------------- claim C15
\* The order total and the unit price of a source row as the provider's own
\* price parser reads them, and the row's quantity (a Temu export has no
\* quantity column: each row is one line).
RowTotal(pid, row) ==
    IF pid = "amazon" THEN AmazonParsePrice(row.total)
    ELSE TemuParsePrice(IF BlankText(row.total) THEN <<>> ELSE row.total).amount

RowUnitPrice(pid, row) ==
    IF pid = "amazon" THEN AmazonParsePrice(row.unitPrice)
    ELSE TemuParsePrice(IF BlankText(row.unitPrice) THEN <<>> ELSE row.unitPrice).amount

RowQuantity(pid, row) == IF pid = "amazon" THEN QuantityOf(row.quantity) ELSE 1

\* C15: for the providers whose rows carry both a unit price and an order
\* total (Amazon, Temu), the price of the mapped record is the total when the
\* total is present and greater than zero, and unit price x quantity in every
\* other case (total absent, zero or negative).
C15_TotalWinsOnlyWhenPositive ==
    (/\ Parsed
     /\ ingest.provider \in {"amazon", "temu"}
     /\ Len(ingest.rows) = 1
     /\ Len(ingest.out) = 1) =>
        LET row == ingest.rows[1]
            total == RowTotal(ingest.provider, row)
        IN ingest.out[1].price =
              IF total.cents > 0 THEN total
              ELSE NumTimes(RowUnitPrice(ingest.provider, row),
                            RowQuantity(ingest.provider, row))

\* ---------------------------------------------------------------- claim C16
IdsOf(rs) == [n \in DOMAIN rs |-> rs[n].id]

\* C16: for every provider's parseImportFile the ids of the records made from
\* one file are pairwise distinct, and parsing the same file again gives each
\* record the same id.
C16_IdsDistinctAndStable ==
    Parsed =>
        /\ \A m, n \in DOMAIN ingest.out :
              m # n => ingest.out[m].id # ingest.out[n].id
        /\ IdsOf(ParseImportFile(ingest.provider, ingest.format, ingest.rows))
              = IdsOf(ingest.out)

\* ---------------------------------------------------------------- claim C17
\* C17: every record a provider emits has a price that is a number and is
\* not below zero, whatever the amounts of the source rows (negative and
\* quoted-negative ones included).
C17_PriceNeverNegative ==
    Parsed =>
        \A n \in DOMAIN ingest.out :
            ~ingest.out[n].price.nan /\ ingest.out[n].price.cents >= 0

\* ---------------------------------------------------------------- claim C18
\* C18: every record a provider emits has a non-empty currency code: where
\* the source leaves the currency out or empty, the provider's fallback
\* stands in.
C18_CurrencyNeverEmpty ==
    Parsed => \A n \in DOMAIN ingest.out : ~Blank(ingest.out[n].currency)

\* ---------------------------------------------------------------- claim C19
\* The states in which the tokenizers have run, and those whose text an
\* export wrote.
Tokenized == ingest.pc = "tokenized"
FromExport == Tokenized /\ ingest.cells # <<>>

\* The lines of the export that are not blank (a row of empty fields only is
\* dropped as a blank line).
FilledLines == SelectSeq(ingest.cells, SomeFilled)

\* C19: parseCsvToRows reads a doubled quote inside a quoted field as one
\* literal quote and keeps commas and line ends inside a quoted field as part
\* of the field: the rows it holds are the non-blank lines of the export,
\* field for field and in the order written, and each record gives under the
\* header of a column the trimmed value of that column.
C19_QuotedFieldsRoundTrip ==
    FromExport =>
        /\ ingest.rows = FilledLines
        /\ Len(ingest.records) = IF Len(FilledLines) < 2 THEN 0 ELSE Len(FilledLines) - 1
        /\ \A k \in DOMAIN ingest.records : \A c \in 1..2 :
              (\A d \in 1..2 : Trim(FilledLines[1][d]) = Trim(FilledLines[1][c]) => d <= c)
                 => ingest.records[k][Trim(FilledLines[1][c])] = Trim(FilledLines[k + 1][c])

\* A value with a comma and a quote in it came out as one field.
C19_Witness ==
    /\ FromExport
    /\ Len(ingest.cells) = 2
    /\ ingest.cells[1] = <<<<"a">>, <<Comma>>>>
    /\ ingest.cells[2] = <<<<"a", Comma, Quote>>, <<LF>>>>
    /\ Len(ingest.records) = 1
    /\ ingest.records[1][<<"a">>] = <<"a", Comma, Quote>>
    /\ ingest.rows[2] = <<<<"a", Comma, Quote>>, <<LF>>>>

\* ---------------------------------------------------------------- claim C20
\* A text with no line feed before its last character holds one line at most:
\* a header and nothing under it.
HeaderOnly(text) == \A n \in 1..(Len(text) - 1) : text[n] # LF

Priced == ingest.pc = "priced"

\* The place of the decimal separator the rule names: the comma when there is
\* no point, the right-most of the two when both are there.
DecimalAt(text) ==
    IF LastIndexOf(text, Comma) > LastIndexOf(text, ".")
    THEN LastIndexOf(text, Comma) ELSE LastIndexOf(text, ".")

\* A money string the rule speaks of: it has a comma, starts with a digit,
\* its decimal separator occurs once and one or two digits follow it.
RuledMoney(text) ==
    /\ Includes(text, <<Comma>>)
    /\ Head(text) \in DigitChars
    /\ LET at == DecimalAt(text)
       IN /\ Len(text) - at \in {1, 2}
          /\ \A n \in (at + 1)..Len(text) : text[n] \in DigitChars
          /\ \A n \in 1..(at - 1) : text[n] # text[at]

\* The amount under the rule: the digits before the decimal separator, the
\* other separator left out as grouping, and the digits after it.
RuledAmount(text) ==
    LET at == DecimalAt(text)
    IN Num(DigitsValue(Only(SubSeq(text, 1, at - 1), DigitChars)) * 100
           + Hundredths(SubSeq(text, at + 1, Len(text))))

\* C21: in every provider's money-string parser a comma without a point is
\* the decimal point, and with both present the right-most of the two is the
\* decimal separator while the other is dropped as thousands grouping.
C21_RightmostSeparatorIsDecimal ==
    (Priced /\ ingest.text # <<>> /\ RuledMoney(ingest.text)) =>
        ingest.amount = RuledAmount(ingest.text)

\* ---------------------------------------------------------------- claim C22
\* A source record with a title, both identifiers and a completed status.
CompleteRow(row) ==
    /\ ~Blank(row.title) /\ ~Blank(row.orderId) /\ ~Blank(row.itemId)
    /\ row.status = "Completed"

\* C22: no mapper throws on a malformed numeric or date field. A file is
\* never rejected by its parser, and a complete row is emitted with its
\* title: with price 0 when its money string cannot be parsed, and with the
\* current instant as its date when its date is empty or cannot be parsed.
C22_MalformedFieldsFallBack ==
    /\ ingest.pc # "failed"
    /\ (Parsed /\ Len(ingest.rows) = 1 /\ CompleteRow(ingest.rows[1])) =>
          /\ Len(ingest.out) = 1
          /\ ingest.out[1].title = ingest.rows[1].title
          /\ (ingest.rows[1].unitPrice = DBad /\ BlankText(ingest.rows[1].total))
                => ingest.out[1].price = Num(0)
          /\ ingest.rows[1].date \in {DBad, <<>>}
                => ingest.out[1].purchaseDate = Now

\* ---------------------------------------------------------------- claim C23
\* C23: Temu parseDate gives 12:00 UTC of the calendar day its input names,
\* for YYYY/MM/DD, for YYYY-MM-DD and for the free forms the fallback parser
\* reads (a month/day/year date, a full ISO stamp) alike.
C23_ParseDateIsNoonUtcOfTheDay ==
    (/\ Parsed
     /\ ingest.provider = "temu"
     /\ Len(ingest.rows) = 1
     /\ Len(ingest.out) = 1) =>
        /\ ingest.rows[1].date \in {DSlash, DUs, DStamp}
              => ingest.out[1].purchaseDate = Instant(2023, 11, 14, 12, 0)
        /\ ingest.rows[1].date = DIso
              => ingest.out[1].purchaseDate = Instant(2024, 1, 15, 12, 0)

\* ---------------------------------------------------------------- claim C24
Observing == ingest.pc \in {"adding", "returned", "rejected"} /\ ingest.observed

\* C24: with an observer, the processed values addPurchases reports rise
\* strictly, no more than 50 candidates are processed between one report and
\* the next (or before the first, or since the last), and a call that returns
\* from a non-empty batch has reported processed = total exactly once, last.
C24_ProgressCadence ==
    Observing =>
        LET reports == ingest.reports
            last == IF reports = <<>> THEN 0 ELSE reports[Len(reports)]
        IN /\ \A k \in 1..(Len(reports) - 1) :
                 /\ reports[k] < reports[k + 1]
                 /\ reports[k + 1] - reports[k] <= ProgressEvery
           /\ reports # <<>> => reports[1] <= ProgressEvery
           /\ (ingest.i - 1) - last <= ProgressEvery
           /\ ingest.pc = "returned" =>
                 /\ last = ingest.total
                 /\ Cardinality({k \in DOMAIN reports : reports[k] = ingest.total}) = 1

\* A batch whose last candidate is also due by the count was reported once.
C24_Witness ==
    /\ Observing
    /\ ingest.pc = "returned"
    /\ ingest.total = 101
    /\ ingest.reports = <<1, 51, 101>>

\* ---------------------------------------------------------------- claim C25
\* C25: when validateImportFile returns errors for a file, ingestion does not
\* proceed. The step that shows the validation errors ends the handler with
\* the import's addPurchases never called and the stored purchases as they
\* were, and an import's addPurchases only ever runs for a handler that has
\* passed validation and parsed its file.
C25_InvalidFileIsNotIngested ==
    /\ [](task["import"].pc # "idle" => imp.pc = "adding")
    /\ [][(/\ imp.pc = "validate"
           /\ imp' # imp
           /\ ui'.errors[imp.provider] = "validation errors")
             => /\ imp'.pc = "idle"
                /\ task["import"].pc = "idle"
                /\ task'["import"] = task["import"]
                /\ purchases' = purchases
                /\ ui'.importProgress = ui.importProgress
                /\ ui'.importResult = ui.importResult]_vars

\* A file was refused by validation and the handler has returned.
C25_Witness ==
    /\ imp.pc = "idle"
    /\ imp.runs = 1
    /\ ui.errors["allegro"] = "validation errors"
    /\ task["import"].pc = "idle"
    /\ ui.importResult = <<>>

\* C26: the exchange-rate lookup is the identity when from = to (rate 1, with
\* no read of the cache and no contact of the remote service), and is cached
\* otherwise: once a rate of a (from, to, date) triple has been fetched
\* successfully and the fetching lookup has stored it, no call begun later
\* contacts the remote service for that triple.  (Two calls in flight together
\* that both miss the cache both contact the service: neither is later than
\* the other's completed fetch.)
RateCalls == IF ingest.pc = "rates" THEN {ingest.calls[c] : c \in RateCallers}
             ELSE {}

C26_IdentityAndCachedRates ==
    /\ \A call \in RateCalls :
          \A n \in DOMAIN call.todo :
             call.todo[n].from = call.todo[n].to
                => /\ call.kind = "get"
                   /\ call.pc = "done"
                   /\ call.accesses = 0
                   /\ call.results = {[id |-> BuildRateId(call.todo[n]),
                                       rate |-> <<1, 1>>]}
    /\ ingest.pc = "rates" => ~ingest.refetched

\* One call has answered 1 for equal currencies without any access while
\* another, begun after the fetch of its triple, was served by one cache read.
C26_Witness ==
    /\ ingest.pc = "rates"
    /\ \E call \in RateCalls :
          /\ call.pc = "done" /\ call.kind = "get" /\ call.accesses = 0
          /\ call.todo # <<>>
    /\ \E call \in RateCalls :
          /\ call.pc = "done" /\ call.accesses = 1
          /\ \E e \in call.results : e.id \in call.after

\* C27: on sync, if the provider reports the stored access token as expired,
\* syncProvider refreshes it and persists the new tokens before the first
\* fetchPurchases call, and every fetch of that sync uses the refreshed
\* credentials.
Syncing == ingest.pc \in {"check", "refresh", "cursor", "fetch", "adding",
                          "synced", "failed"}

C27_RefreshedBeforeFirstFetch ==
    (Syncing /\ ingest.expired /\ ingest.used # <<>>)
        => /\ ingest.newTokens # <<>>
           /\ \A n \in DOMAIN ingest.used :
                 /\ \A f \in DOMAIN ingest.newTokens[1] :
                       /\ ingest.used[n][f] = ingest.newTokens[1][f]
                       /\ ingest.persisted[n][f] = ingest.newTokens[1][f]
                 /\ ingest.used[n].accessToken # ingest.credentials.accessToken
                 /\ ingest.used[n].clientId = ingest.credentials.clientId

\* A sync that found its token expired has fetched two pages.
C27_Witness ==
    /\ Syncing /\ ingest.expired /\ Len(ingest.used) = 2
    /\ ingest.credentials.accessToken = 1
    /\ ingest.credentials.tokenExpiresAt # NoExpiry

\* C28: export followed by import is a faithful round trip: exporting all
\* data with exportData and importing the result with importData in overwrite
\* mode leaves the purchases, purchase groups, tag groups, tag assignments and
\* currency rates tables containing exactly the exported records.
OverwriteOfFullExport ==
    /\ ingest.pc \in {"clearing", "adding", "imported", "rejected"}
    /\ ingest.mode = "overwrite"
    /\ ingest.options = {"purchases", "groups", "tags"}

C28_ExportImportRoundTrip ==
    OverwriteOfFullExport
        => /\ ingest.pc # "rejected"
           /\ ingest.pc = "imported"
                 => \A t \in TableNames :
                       /\ ingest.tables[t] = ingest.data[t]
                       /\ ingest.imported[t] = Cardinality(ingest.data[t])

\* An overwrite import of a full export has returned, with an exported purchase
\* and an exported rate in place and the tag groups table emptied.
C28_Witness ==
    /\ OverwriteOfFullExport
    /\ ingest.pc = "imported"
    /\ ingest.imported["purchases"] = 1
    /\ ingest.tables["currencyRates"] = {[id |-> 1, v |-> 2]}
    /\ ingest.tables["tagGroups"] = {}

\* C29: rebuildConvertedPrices re-converts all purchases: when
\* rebuildConvertedPrices(C) completes, every stored purchase has
\* convertedCurrency = C and a convertedPrice equal to its price converted to
\* C (its price itself when its currency is C).
RebuiltPrice(p, preferred) ==
    IF p.currency = preferred THEN p.price
    ELSE ConvertedPrice(p.price,
                        ApiRate(p.currency, preferred, ExtractDate(p.purchaseDate)))

C29_RebuildConvertsEveryPurchase ==
    [][(/\ conv.op = "rebuildConvertedPrices"
        /\ conv.pc # "done"
        /\ conv'.pc = "done")
          => \A id \in DOMAIN purchases' :
                /\ purchases'[id].convertedCurrency = conv.preferred
                /\ purchases'[id].convertedPrice
                      = <<RebuiltPrice(purchases'[id], conv.preferred)>>]_vars

\* C30: registry lookup by id returns the registered provider for every
\* provider the project documents as active for import (allegro, amazon,
\* aliexpress and temu), and each of them appears in the import-capable list.
ActiveImportIds == {"allegro", "amazon", "aliexpress", "temu"}

Answers == IF ingest.pc = "ready" THEN ingest.answers ELSE <<>>

C30_ActiveProvidersAreRegistered ==
    \A n \in DOMAIN Answers :
       /\ (Answers[n].query = "getProvider" /\ Answers[n].id \in ActiveImportIds)
             => /\ Len(Answers[n].result) = 1
                /\ Answers[n].result[1] \in ProviderModules
                /\ Answers[n].result[1].id = Answers[n].id
       /\ Answers[n].query = "getImportProviders"
             => \A id \in ActiveImportIds :
                   \E k \in DOMAIN Answers[n].result :
                      Answers[n].result[k].id = id

\* C31: the Allegro OAuth callback exchanges the authorization code for tokens
\* only if the state parameter returned in the callback equals the state that
\* was saved when the authorization flow was started; in every other case no
\* token exchange takes place and the stored credentials are unchanged.
StateMatches ==
    ingest.loadedState \in OAuthStates /\ ingest.returnedState = ingest.loadedState

C31_ExchangeOnlyOnMatchingState ==
    /\ [](ingest.pc = "exchanging" => StateMatches)
    /\ [][(ingest.pc \in {"oauth", "exchanging"}
             /\ ingest'.pc \in {"oauth", "exchanging"}
             /\ ingest'.accessToken # ingest.accessToken)
            => (ingest.pc = "exchanging" /\ StateMatches)]_vars

\* C32: the dedup invariant survives overlapping batches: when two addPurchases
\* calls that contain the same (providerId, providerItemId) overlap in time (a
\* sync page and a file import, each suspended at its storage awaits), then
\* after both have finished exactly one stored purchase has that dedup key.
BothFinished == \A t \in TaskIds : task[t].pc \in {"idle", "returned"}

C32_DedupSurvivesOverlap ==
    BothFinished
        => \A a, b \in DOMAIN purchases :
              a # b => ~SameDedupKey(purchases[a], purchases[b])

\* C33: within the output of any provider's parseImportFile, two records have
\* the same id if and only if they have the same (providerId, providerItemId).
C33_IdMatchesDedupKey ==
    Parsed =>
        \A m, n \in DOMAIN ingest.out :
            (ingest.out[m].id = ingest.out[n].id)
                <=> SameDedupKey(ingest.out[m], ingest.out[n])

\* The row of the provider whose sync is in flight says 'syncing'.
MarkedSyncing ==
    /\ ingest.pc \notin {"idle", "ready"}
    /\ ingest.provider \in DOMAIN ingest.syncState
    /\ ingest.syncState[ingest.provider].status = "syncing"

\* The row of the provider says 'idle' with lastSyncAt set and cursor and
\* error cleared, or 'error' with the message recorded.
SyncLeftCleanly ==
    /\ ingest.pc = "settled"
    /\ LET row == ingest.syncState[ingest.provider]
       IN \/ /\ ingest.outcome = "resolved"
             /\ row.status = "idle" /\ row.lastSyncAt # None
             /\ row.cursor = None /\ row.error = None
          \/ /\ ingest.outcome = "rejected"
             /\ row.status = "error" /\ row.error = ingest.error

\* C34: every syncProvider call that marks the provider 'syncing' eventually
\* leaves it 'idle' (lastSyncAt set, cursor and error cleared) or 'error'
\* (message recorded); a settled call never leaves 'syncing' behind; and a
\* call rejected for a missing provider or missing credentials changes no
\* sync state.
C34_SyncingIsEventuallyLeft ==
    /\ MarkedSyncing ~> SyncLeftCleanly
    /\ []((ingest.pc = "settled" /\ ingest.outcome # "rejected early")
            => SyncLeftCleanly)
    /\ []((ingest.pc = "settled" /\ ingest.outcome = "rejected early")
            => ingest.syncState = ingest.before)

\* C35: the pagination loop of syncProvider terminates for every finite
\* remote collection: every fetchPurchases call after the first uses a cursor
\* strictly beyond the previous one, and the loop ends once hasMore is false,
\* also after a page of zero items below the reported total.
C35_PaginationTerminates ==
    /\ (ingest.pc = "fetch") ~> (ingest.pc \in {"finishing", "failing"})
    /\ [][(ingest.pc = "adding" /\ ingest'.pc = "fetch")
            => CursorOffset(ingest'.cursor) > CursorOffset(ingest.cursor)]_vars
    /\ [][(ingest.pc = "adding" /\ ingest'.pc = "finishing")
            <=> (ingest.pc = "adding" /\ ingest'.pc # "failing"
                 /\ ~ingest.result.hasMore)]_vars

\* C36: in the device-authorization flow the poll response of a flow that
\* was already cleaned up (expired, denied or closed) changes neither the
\* displayed status nor the stored credentials and schedules no further
\* poll, even when a new flow was started before the response arrived; and
\* at most one polling chain is live at any time.
C36_StalePollResponseIsIgnored ==
    /\ [](ingest.pc = "device" => Cardinality(LiveChains(ingest)) <= 1)
    /\ [][\A f \in Flows :
            (/\ ingest.pc = "device"
             /\ ingest.phase[f] = "polling"
             /\ ingest'.phase[f] # "polling"
             /\ f \in ingest.cleaned)
            => (/\ ingest'.status = ingest.status
                /\ ingest'.token = ingest.token
                /\ ingest'.phase[f] = "dead")]_vars

\* C37: after any sequence of assignTag and removeTagAssignment calls, two
\* overlapping assignTag calls for one target and tag group included, the
\* store holds at most one assignment per (targetId, tagGroupId) and none
\* with an empty selectedValues list.
C37_OneAssignmentPerTargetAndGroup ==
    ingest.pc = "tags" =>
        /\ \A a, b \in ingest.tags :
              (a.targetId = b.targetId /\ a.tagGroupId = b.tagGroupId) => a = b
        /\ \A a \in ingest.tags : a.selectedValues # <<>>

\* The step of importData that handles data.purchases in merge mode.
MergePurchasesStep ==
    /\ ingest.pc = "adding"
    /\ ingest.mode = "merge"
    /\ ingest.stage = 1
    /\ ingest'.stage # 1

\* C38: importData in merge mode preserves the dedup invariant: it adds no
\* purchase whose (providerId, providerItemId) is that of a stored purchase
\* with another id, and it modifies no stored record.
C38_MergeImportKeepsDedup ==
    [][MergePurchasesStep
         => /\ ingest.tables["purchases"] \subseteq ingest'.tables["purchases"]
            /\ \A r \in ingest'.tables["purchases"] \ ingest.tables["purchases"] :
                  ~\E s \in ingest.tables["purchases"] :
                       s.key = r.key /\ s.id # r.id]_vars

\* A step of importData in overwrite mode.
OverwriteStep ==
    /\ ingest.pc \in {"clearing", "adding"}
    /\ ingest.mode = "overwrite"

\* C39: importData in overwrite mode replaces only the data categories the
\* file holds: a table (purchases, purchase groups, tag groups, tag
\* assignments, currency rates) for which the file has no records is left
\* unchanged.
C39_OverwriteKeepsAbsentTables ==
    [][OverwriteStep
         => \A t \in TableNames :
               ingest.data[t] = {} => ingest'.tables[t] = ingest.tables[t]]_vars

\* The sum of the four counters of a snapshot or a result.
CountedOutcomes(r) == r.added + r.skipped + r.updated + r.enriched

\* C40: in every progress snapshot and in the result of addPurchases,
\* added + skipped + updated + enriched is the number of candidates processed
\* so far (total, the batch length, in the result), and with no other writer
\* the store has grown by exactly added when the call returns.
C40_CountersAccountForEveryCandidate ==
    LET tk == task["direct"]
    IN /\ tk.progress # <<>>
            => /\ CountedOutcomes(tk.progress[1]) = tk.progress[1].processed
               /\ tk.progress[1].total = Len(tk.batch)
       /\ tk.pc = "returned"
            => /\ CountedOutcomes(tk.result[1]) = tk.result[1].total
               /\ tk.result[1].total = Len(tk.batch)
               /\ Cardinality(DOMAIN purchases)
                    = Cardinality(DOMAIN tk.startStore) + tk.result[1].added

\* A batch of two candidates for a stored purchase has returned: one was
\* skipped and one enriched, and the last snapshot covers both.
C40_Witness ==
    LET tk == task["direct"]
    IN /\ tk.pc = "returned"
       /\ tk.result[1].skipped = 1
       /\ tk.result[1].enriched = 1
       /\ tk.progress # <<>>
       /\ tk.progress[1].processed = 2

====
